---------------------------- MODULE Spec2Model ----------------------------
(***************************************************************************)
(* Capability Environment of Agent TARS: AgentTARSLocalEnvironment         *)
(* (environments/local/index.ts) and the AgentTARS lifecycle that drives   *)
(* it (agent-tars.ts).                                                     *)
(*                                                                         *)
(* The environment's asynchronous handlers are split at their awaits: one  *)
(* action per synchronous segment.  BrowserManager, ResourceCleaner and    *)
(* WorkspacePathResolver are imported by the environment but their sources *)
(* are not part of the source tree at hand; they are modelled from the     *)
(* design document (sections 4.1, 4.5, 4.6).                               *)
(***************************************************************************)
EXTENDS Naturals, FiniteSets, Sequences

\* ------------------------------------------------------------------ bounds
\* Concurrent tool-call slots of the agent loop.
MaxCallers == 2
\* Tool calls issued over a session.
MaxCalls == 3
\* Session-level dispose calls (on top of the one AgentTARS.initialize makes
\* in its catch block).
MaxDisposes == 2

Callers == 1..MaxCallers
\* every call starts at most one launch or recovery attempt
Attempts == 1..MaxCalls

\* Padding (blanks before, inside and after) of the descriptions tried.
MaxPad == 1
\* How far the descriptions tried fall short of or exceed the length limit.
MaxExcess == 2
\* Length of the skill names, directory names and queries tried.
MaxNameLen == 2

\* ------------------------------------------------------------- vocabulary
Providers == {"browser", "filesystem", "commands"}
Ends == {"client", "server"}
ToolNames == {"browser_navigate", "read_file", "run_command"}
RelPath == "notes.txt"
AbsPath == "/ws/notes.txt"
ArgValues == {RelPath, AbsPath}
NoValue == "none"
\* the two initialize invocations considered: the agent's, and a re-entrant one
First == "first"
Second == "second"
Runs == {First, Second}
NoRun == "none"
\* applyDefaultOptions (config-utils): control hybrid, search on, in-memory MCP
DefaultOptions == [control |-> "hybrid", search |-> TRUE, mcpImpl |-> "in-memory"]
OptionSets == [control : {"dom", "hybrid"}, search : BOOLEAN,
               mcpImpl : {"in-memory", "stdio"}]
\* tool ids the environment hands to the registration sink
SearchTool == "web_search"
SkillTool == "read_skill"
GUITool == "browser_vision_control"
RegistryIds == {SearchTool, SkillTool, GUITool, "browser_navigate", "read_file",
                "run_command"}

VARIABLES
  \* BrowserManager (BrowserProcessState of the design document)
  bmState,        \* "NotLaunched" | "Launching" | "Ready" | "Unresponsive"
  attemptStatus,  \* attempt -> "unused" | "inflight" | "ok" | "fail"
  attemptKind,    \* attempt -> "none" | "launch" | "recovery"
  \* one record per onBeforeToolCall invocation in progress
  pc,             \* caller -> "idle" | "awaitLaunch" | "probing" | "awaitRecover" | "done"
  tool,           \* caller -> toolCall.name
  args,           \* caller -> args
  replay,         \* caller -> isReplaySnapshot
  joined,         \* caller -> the attempt the call awaits (0: none)
  probe,          \* caller -> "none" | "alive" | "dead": what isBrowserAlive(true) returned
  sawInFlight,    \* caller -> the attempt in flight when the call was issued (0: none)
  result,         \* caller -> "none" | "returned" | "threw"
  ret,            \* caller -> the value onBeforeToolCall returned
  calls,          \* tool calls issued so far
  \* the environment (AgentTARSLocalEnvironment) and its AgentTARS owner
  options,        \* this.options: control, search, mcpImpl
  initPc,         \* run -> position of that AgentTARS.initialize invocation
  conn,           \* run -> provider -> end -> "none" | "pending" | "ok" | "failed" | "closed"
  linked,         \* run -> providers whose connect callback has fulfilled
  mcpServers,     \* provider -> run that created the server held (NoRun: no entry)
  mcpClients,     \* provider -> run that created the client held (NoRun: no entry)
  managers,       \* browserToolsManager, filesystemToolsManager, browserGUIAgent
  managersCreated,\* how many times the tool managers were instantiated
  registered,     \* tool id -> number of registerToolFn calls
  disposePc,      \* "idle" | "pairs" | "clear": position of the onDispose running
  disposeBy,      \* NoRun: the session; r: the catch block of initialize run r
  closedPairs,    \* providers the cleanup running has torn down
  disposeReturns, \* how many onDispose calls have returned
  sessionDisposes,\* how many onDispose calls the session has issued
  \* registerMCPTools and the providers' answers
  catalogue,      \* provider -> the tool names its listTools answers with
  listed,         \* provider -> what listTools gave the generic bridge ("none": not asked)
  warned,         \* providers for which the bridge logged "No tools returned"
  via,            \* provider -> the registration paths taken: "manager", "bridge"
  toolSkills,     \* the skills the read_skill tool registered was built with
  \* one call of a generically bridged tool's handler
  bcPc,           \* "idle" | "forwarding" | "done"
  bcTool,         \* the bridged tool called
  bcReply,        \* how client.callTool settled: kind "none" | "response" | "error"
  bcOut,          \* what the handler gave its caller: kind "none" | "returned" | "threw"
  bcLogged,       \* errors the handler logged
  \* one onAfterToolCall invocation and the browserState object it is given
  afterPc,        \* "idle" | "checkAlive" | "capturing" | "done"
  afterTool,      \* toolCall.name
  afterResult,    \* the tool's result handed in
  afterAlive,     \* "none" | "alive" | "dead": what isBrowserAlive() returned
  afterCapture,   \* "none" or how the screenshot request ended
  afterOut,       \* what onAfterToolCall gave its caller
  shotBefore,     \* browserState.currentScreenshot when the call was issued
  currentScreenshot, \* browserState.currentScreenshot
  captureWarned,  \* updateBrowserState logged "Failed to update browser state"
  \* one onEachAgentLoopStart invocation and the GUI controller it primes
  loopPc,         \* "idle" | "awaitGUI" | "done"
  loopOut,        \* "none" | "returned" | "threw"
  guiPrimed,      \* the controller was handed the event stream
  observed,       \* the controller emitted an observation to the event stream
  \* the skills loader: a description put through truncate, a lookup by name
  description,    \* the description given to truncate (sequence of characters)
  copy,           \* the copy of truncate applied
  truncated,      \* truncate(description)
  retruncated,    \* truncate(truncate(description))
  query,          \* the name given to findSkillByName
  found,          \* what findSkillByName returned: {} for null, {entry} otherwise
  loaderPc,       \* "idle" | "input" | "truncated" | "retruncated" | "list" |
                  \* "import" | "refused" | "query" | "found"
  \* the skills configuration and the skill directories on disk
  skillsConfig,   \* workspace and skills options as the user configured them
  fsys,           \* <<root, directory>> -> the subdirectories readdir lists
  listing,        \* copy of the loader -> what its listSkills returned
  listedBy,       \* the copies whose listSkills has been applied
  importedAs,     \* basename of the directory importSkillWorkflow wrote (<<>>: none)
  \* one call of the read_skill handler
  rsPc,           \* "idle" | "done"
  rsName,         \* args.name
  rsOut           \* what the handler gave its caller

bmVars == <<bmState, attemptStatus, attemptKind>>
callVars == <<pc, tool, args, replay, joined, probe, sawInFlight, result, ret, calls>>
regVars == <<catalogue, listed, warned, via, toolSkills>>
bridgeVars == <<bcPc, bcTool, bcReply, bcOut, bcLogged>>
afterVars == <<afterPc, afterTool, afterResult, afterAlive, afterCapture, afterOut,
               shotBefore, currentScreenshot, captureWarned>>
loopVars == <<loopPc, loopOut, guiPrimed, observed>>
handlerVars == <<bridgeVars, afterVars, loopVars>>
skillVars == <<skillsConfig, fsys, listing, listedBy, importedAs, rsPc, rsName, rsOut>>
fnVars == <<description, copy, truncated, retruncated, query, found, loaderPc,
            skillVars>>
auxVars == <<regVars, handlerVars, fnVars>>
sessionVars == <<options, initPc, conn, linked, mcpServers, mcpClients,
                 managers, managersCreated, registered, disposePc, disposeBy,
                 closedPairs, disposeReturns, sessionDisposes>>
envVars == <<sessionVars, auxVars>>
vars == <<bmVars, callVars, envVars>>

\* ------------------------------------------------ BrowserManager (4.1)
InFlight == {a \in Attempts : attemptStatus[a] = "inflight"}
Unused == {a \in Attempts : attemptStatus[a] = "unused"}
FirstUnused == CHOOSE a \in Unused : \A b \in Unused : a <= b
TheInFlight == CHOOSE a \in InFlight : TRUE

\* isReady(): the launch has completed (the browser may have died since).
isLaunchingComplete == bmState \in {"Ready", "Unresponsive"}

\* isAlive(probe): side-effect-free liveness check.
isBrowserAlive == bmState = "Ready"

StartAttempt(c, kind) ==
  /\ attemptStatus' = [attemptStatus EXCEPT ![FirstUnused] = "inflight"]
  /\ attemptKind' = [attemptKind EXCEPT ![FirstUnused] = kind]
  /\ bmState' = "Launching"
  /\ joined' = [joined EXCEPT ![c] = FirstUnused]

JoinAttempt(c) ==
  /\ joined' = [joined EXCEPT ![c] = TheInFlight]
  /\ UNCHANGED bmVars

\* A launchBrowser without the single-flight rule: every caller starts its own.
launchBrowser_PerCaller(c) == StartAttempt(c, "launch")

\* launchBrowser(options): a caller observing Launching waits for the attempt
\* in flight; otherwise NotLaunched -> Launching and the browser is started.
launchBrowser(c) ==
  IF InFlight # {} THEN JoinAttempt(c) ELSE StartAttempt(c, "launch")

\* A recoverBrowser that does not serialize with the attempt in flight.
recoverBrowser_Unserialized(c) == StartAttempt(c, "recovery")

\* recoverBrowser(): tear down and relaunch; serialized with any attempt in
\* flight.
recoverBrowser(c) ==
  IF InFlight # {} THEN JoinAttempt(c) ELSE StartAttempt(c, "recovery")

\* The browser process comes up: Launching -> Ready.
AttemptSucceeds(a) ==
  /\ attemptStatus[a] = "inflight"
  /\ attemptStatus' = [attemptStatus EXCEPT ![a] = "ok"]
  /\ bmState' = "Ready"
  /\ UNCHANGED <<attemptKind, callVars, envVars>>

\* The browser process fails to start: nothing is left running.
AttemptFails(a) ==
  /\ attemptStatus[a] = "inflight"
  /\ attemptStatus' = [attemptStatus EXCEPT ![a] = "fail"]
  /\ bmState' = "NotLaunched"
  /\ UNCHANGED <<attemptKind, callVars, envVars>>

\* The browser dies silently mid-session.
BrowserDies ==
  /\ bmState = "Ready"
  /\ bmState' = "Unresponsive"
  /\ UNCHANGED <<attemptStatus, attemptKind, callVars, envVars>>

\* ------------------------------------------- WorkspacePathResolver (4.5)
hasPathParameters(name) == name \in {"read_file"}

resolveToolPaths(name, a) == IF a = RelPath THEN AbsPath ELSE a

\* ------------------------------------------------------ onBeforeToolCall
IsBrowserTool(name) == name \in {"browser_navigate"}

\* An onBeforeToolCall that hands every tool's args to the path resolver.
ReturnedArgs_AlwaysResolved(name, a) == resolveToolPaths(name, a)

\* index.ts 399-404: the value onBeforeToolCall returns
ReturnedArgs(name, a) ==
  IF hasPathParameters(name) THEN resolveToolPaths(name, a) ELSE a

Return(c, name, a) ==
  /\ pc' = [pc EXCEPT ![c] = "done"]
  /\ result' = [result EXCEPT ![c] = "returned"]
  /\ ret' = [ret EXCEPT ![c] = ReturnedArgs(name, a)]

Throw(c) ==
  /\ pc' = [pc EXCEPT ![c] = "done"]
  /\ result' = [result EXCEPT ![c] = "threw"]
  /\ UNCHANGED ret

Await(c, where) ==
  /\ pc' = [pc EXCEPT ![c] = where]
  /\ UNCHANGED <<result, ret>>

\* ensureBrowserReady taking a launch in flight for a completed one: the call
\* goes to the probe branch.
ensureBrowserReady_ProbeWhileLaunching(c, name, a, isReplaySnapshot) ==
  IF bmState = "NotLaunched"
  THEN IF ~isReplaySnapshot
       THEN launchBrowser(c) /\ Await(c, "awaitLaunch")
       ELSE Return(c, name, a) /\ UNCHANGED <<bmVars, joined>>
  ELSE Await(c, "probing") /\ UNCHANGED <<bmVars, joined>>

\* ensureBrowserReady without the replay guard of line 473.
ensureBrowserReady_LaunchOnReplay(c, name, a, isReplaySnapshot) ==
  IF ~isLaunchingComplete
  THEN launchBrowser(c) /\ Await(c, "awaitLaunch")
  ELSE Await(c, "probing") /\ UNCHANGED <<bmVars, joined>>

\* ensureBrowserReady with the replay guard of line 473 inverted.
ensureBrowserReady_OnlyOnReplay(c, name, a, isReplaySnapshot) ==
  IF ~isLaunchingComplete
  THEN IF isReplaySnapshot
       THEN launchBrowser(c) /\ Await(c, "awaitLaunch")
       ELSE Return(c, name, a) /\ UNCHANGED <<bmVars, joined>>
  ELSE Await(c, "probing") /\ UNCHANGED <<bmVars, joined>>

\* ensureBrowserReady, index.ts 471-480: up to its first await.
ensureBrowserReady(c, name, a, isReplaySnapshot) ==
  IF ~isLaunchingComplete
  THEN IF ~isReplaySnapshot
       THEN launchBrowser(c) /\ Await(c, "awaitLaunch")
       ELSE Return(c, name, a) /\ UNCHANGED <<bmVars, joined>>
  ELSE Await(c, "probing") /\ UNCHANGED <<bmVars, joined>>

\* onBeforeToolCall, index.ts 388-405: up to its first await.
BeforeToolCall(c, name, a, isReplaySnapshot) ==
  /\ pc[c] = "idle"
  /\ calls < MaxCalls
  /\ calls' = calls + 1
  /\ tool' = [tool EXCEPT ![c] = name]
  /\ args' = [args EXCEPT ![c] = a]
  /\ replay' = [replay EXCEPT ![c] = isReplaySnapshot]
  /\ sawInFlight' = [sawInFlight EXCEPT ![c] = IF InFlight # {} THEN TheInFlight ELSE 0]
  /\ UNCHANGED probe
  /\ IF IsBrowserTool(name)
     THEN ensureBrowserReady(c, name, a, isReplaySnapshot)
     ELSE Return(c, name, a) /\ UNCHANGED <<bmVars, joined>>
  /\ UNCHANGED envVars

\* A continuation that swallows the launch failure.
LaunchSettled_Swallow(c) ==
  /\ pc[c] = "awaitLaunch"
  /\ attemptStatus[joined[c]] \in {"ok", "fail"}
  /\ Return(c, tool[c], args[c])
  /\ UNCHANGED <<bmVars, tool, args, replay, joined, probe, sawInFlight, calls, envVars>>

\* index.ts 474-478, 399-404: `await launchBrowser(...)` settles; a rejection
\* is not caught and leaves onBeforeToolCall.
LaunchSettled(c) ==
  /\ pc[c] = "awaitLaunch"
  /\ attemptStatus[joined[c]] \in {"ok", "fail"}
  /\ IF attemptStatus[joined[c]] = "ok" THEN Return(c, tool[c], args[c]) ELSE Throw(c)
  /\ UNCHANGED <<bmVars, tool, args, replay, joined, probe, sawInFlight, calls, envVars>>

\* index.ts 480-483: `await isBrowserAlive(true)` settles, then the recovery
\* is requested or the call goes on to path resolution.
ProbeSettled(c) ==
  /\ pc[c] = "probing"
  /\ probe' = [probe EXCEPT ![c] = IF isBrowserAlive THEN "alive" ELSE "dead"]
  /\ IF ~isBrowserAlive /\ ~replay[c]
     THEN recoverBrowser(c) /\ Await(c, "awaitRecover")
     ELSE Return(c, tool[c], args[c]) /\ UNCHANGED <<bmVars, joined>>
  /\ UNCHANGED <<tool, args, replay, sawInFlight, calls, envVars>>

\* A continuation that raises when the recovery failed.
RecoverSettled_Raise(c) ==
  /\ pc[c] = "awaitRecover"
  /\ attemptStatus[joined[c]] \in {"ok", "fail"}
  /\ IF attemptStatus[joined[c]] = "ok" THEN Return(c, tool[c], args[c]) ELSE Throw(c)
  /\ UNCHANGED <<bmVars, tool, args, replay, joined, probe, sawInFlight, calls, envVars>>

\* index.ts 483-488, 399-404: `await recoverBrowser()` settles; a failed
\* recovery is logged and the call goes on.
RecoverSettled(c) ==
  /\ pc[c] = "awaitRecover"
  /\ attemptStatus[joined[c]] \in {"ok", "fail"}
  /\ Return(c, tool[c], args[c])
  /\ UNCHANGED <<bmVars, tool, args, replay, joined, probe, sawInFlight, calls, envVars>>

\* The agent loop takes the outcome; the slot is free for the next call.
CallConsumed(c) ==
  /\ pc[c] = "done"
  /\ pc' = [pc EXCEPT ![c] = "idle"]
  /\ tool' = [tool EXCEPT ![c] = NoValue]
  /\ args' = [args EXCEPT ![c] = NoValue]
  /\ replay' = [replay EXCEPT ![c] = FALSE]
  /\ joined' = [joined EXCEPT ![c] = 0]
  /\ probe' = [probe EXCEPT ![c] = "none"]
  /\ sawInFlight' = [sawInFlight EXCEPT ![c] = 0]
  /\ result' = [result EXCEPT ![c] = "none"]
  /\ ret' = [ret EXCEPT ![c] = NoValue]
  /\ UNCHANGED <<bmVars, calls, envVars>>

\* --------------------------------------------------- skills: truncate
\* skills-loader.ts 19 (agent-tars.ts 368, skills.ts 23, cli/src/index.ts 73)
MAX_DESCRIPTION_LENGTH == 240

\* the copies of the skills loader: shared/skills-loader.ts, the one carried in
\* agent-tars.ts (350-546), agent-server utils/skills.ts, cli/src/index.ts
Copies == {"skills-loader", "agent-tars", "agent-server", "cli"}

\* characters matched by \s; "NL" is the line break
Whitespace == {" ", "TAB", "NL"}

\* The marker a copy appends, one element per UTF-16 code unit: the ellipsis
\* U+2026, except in skills-loader.ts 24 where the source text holds the three
\* characters U+00E2 U+20AC U+00A6.
Ellipsis(cp) ==
  IF cp = "skills-loader" THEN <<"U+00E2", "U+20AC", "U+00A6">> ELSE <<"U+2026">>

Least(S) == CHOOSE i \in S : \A j \in S : i <= j
\* Op of the one element of S
Of(S, Op(_)) == CHOOSE r \in {Op(x) : x \in S} : TRUE
Greatest(S) == CHOOSE i \in S : \A j \in S : i >= j

\* String.prototype.trim
Trim(str) ==
  LET solid == {i \in 1..Len(str) : str[i] \notin Whitespace}
  IN IF solid = {} THEN <<>>
     ELSE SubSeq(str, CHOOSE i \in solid : \A j \in solid : i <= j,
                      CHOOSE i \in solid : \A j \in solid : i >= j)

\* replace(/\s+/g, ' '): every run of whitespace becomes one blank.  The
\* characters dropped are the whitespace characters that follow a whitespace
\* character; the k-th character kept lies at most that many places after k.
Collapse(str) ==
  LET dropped == {i \in 2..Len(str) : str[i] \in Whitespace /\ str[i - 1] \in Whitespace}
      before(i) == Cardinality({j \in dropped : j < i})
      src(k) == CHOOSE i \in k..(k + Cardinality(dropped)) :
                  i \notin dropped /\ i - before(i) = k
  IN [k \in 1..(Len(str) - Cardinality(dropped)) |->
        IF str[src(k)] \in Whitespace THEN " " ELSE str[src(k)]]

\* truncate, skills-loader.ts 21-25 and its copies
truncate(cp, input) ==
  LET trimmed == Collapse(Trim(input))
  IN IF Len(trimmed) <= MAX_DESCRIPTION_LENGTH THEN trimmed
     ELSE SubSeq(trimmed, 1, MAX_DESCRIPTION_LENGTH - 1) \o Ellipsis(cp)

Rep(ch, n) == [i \in 1..n |-> ch]

\* the descriptions tried: a word, a gap, a second word, with padding around
Descriptions ==
  {Rep(" ", lead) \o Rep("x", n1) \o Rep(gap, g) \o Rep("y", n2) \o Rep(" ", trail) :
     lead \in 0..MaxPad, trail \in 0..MaxPad, gap \in {" ", "TAB"}, g \in 0..(MaxPad + 1),
     n1 \in (0..MaxExcess) \cup ((MAX_DESCRIPTION_LENGTH - MaxExcess)
                                   ..(MAX_DESCRIPTION_LENGTH + MaxExcess)),
     n2 \in 0..MaxExcess}

\* resolveSkillEntry, skills-loader.ts 62: a description goes through truncate
Truncate ==
  /\ loaderPc = "input"
  /\ truncated' = truncate(copy, description)
  /\ loaderPc' = "truncated"
  /\ UNCHANGED <<bmVars, callVars, sessionVars, regVars, handlerVars, description, copy,
                 retruncated, query, found, skillVars>>

\* the truncated description goes through truncate again
Retruncate ==
  /\ loaderPc = "truncated"
  /\ retruncated' = truncate(copy, truncated)
  /\ loaderPc' = "retruncated"
  /\ UNCHANGED <<bmVars, callVars, sessionVars, regVars, handlerVars, description, copy,
                 truncated, query, found, skillVars>>

\* ------------------------------------------------ skills: SKILL.md files
\* String.prototype.toLowerCase, character by character
Lower(ch) ==
  CASE ch = "A" -> "a"
    [] ch = "B" -> "b"
    [] OTHER -> ch

ToLower(str) == [i \in 1..Len(str) |-> Lower(str[i])]

Strings(chars, n) == UNION {[1..k -> chars] : k \in 0..n}

\* skills-loader.ts 18
FRONTMATTER_DELIMITER == <<"-", "-", "-">>
\* the header keys read at skills-loader.ts 61-62
NameKey == <<"n", "a", "m", "e">>
DescriptionKey == <<"d", "e", "s", "c", "r", "i", "p", "t", "i", "o", "n">>
\* skills-loader.ts 62: 'No description'
NoDescription == <<"N", "o", " ", "d", "e", "s", "c", "r", "i", "p", "t", "i", "o", "n">>

\* the characters used here that [a-zA-Z0-9_-] matches
WordChars == {"a", "b", "c", "d", "e", "i", "k", "l", "m", "n", "o", "p", "r", "s", "t",
              "x", "y", "A", "B", "N", "T", "-", "_"}

\* content.split(/\r?\n/): the lines of a text
SplitLines(str) ==
  LET breaks == {i \in 1..Len(str) : str[i] = "NL"}
      n == Cardinality(breaks)
      brk(k) == IF k = 0 THEN 0
                ELSE IF k = n + 1 THEN Len(str) + 1
                ELSE CHOOSE i \in breaks : Cardinality({j \in breaks : j < i}) = k - 1
  IN [k \in 1..(n + 1) |-> SubSeq(str, brk(k - 1) + 1, brk(k) - 1)]

\* skills-loader.ts 39: line.match(/^([a-zA-Z0-9_-]+)\s*:\s*(.+)$/) for a
\* trimmed line: <<key, value>>, or <<>> when the line does not match
KeyValue(line) ==
  LET pastWord == {i \in 1..Len(line) : line[i] \notin WordChars}
      k == IF pastWord = {} THEN Len(line) + 1 ELSE Least(pastWord)
      solidFrom(i) == LET s == {j \in i..Len(line) : line[j] \notin Whitespace}
                      IN IF s = {} THEN Len(line) + 1 ELSE Least(s)
      colon == solidFrom(k)
      v == solidFrom(colon + 1)
  IN IF k > 1 /\ colon <= Len(line) /\ line[colon] = ":" /\ v <= Len(line)
     THEN <<SubSeq(line, 1, k - 1), SubSeq(line, v, Len(line))>>
     ELSE <<>>

\* parseFrontmatter, skills-loader.ts 27-45, for the lines of a file: the
\* values of name and description in the header block (the last one given
\* wins), <<>> for a key the block does not give
parseFrontmatter(content) ==
  LET closing == {i \in 2..Len(content) : Trim(content[i]) = FRONTMATTER_DELIMITER}
      last == IF closing = {} THEN Len(content) ELSE Least(closing) - 1
      header == IF content # <<>> /\ Trim(content[1]) = FRONTMATTER_DELIMITER
                THEN 2..last ELSE {}
      giving(key) == {i \in header : \E kv \in {KeyValue(Trim(content[i]))} :
                                       kv # <<>> /\ kv[1] = key}
      given(lines) == IF lines = {} THEN <<>>
                     ELSE KeyValue(Trim(content[Greatest(lines)]))[2]
      value(key) == Of({giving(key)}, given)
  IN [name |-> value(NameKey), description |-> value(DescriptionKey)]

\* a skill directory: its basename, whether it holds a SKILL.md ("none": no
\* such file, "unreadable": reading it raises), the file's lines, and whether
\* a workflow.json lies next to it
SkillDir(name, lines) ==
  [dir |-> name, file |-> "ok", content |-> lines, workflow |-> FALSE]

\* a SKILL.md whose header gives the name h (no header for the empty name),
\* followed by one line of text
SkillFile(h) ==
  IF h = <<>> THEN <<<<"x">>>>
  ELSE <<FRONTMATTER_DELIMITER, NameKey \o <<":", " ">> \o h, FRONTMATTER_DELIMITER,
         <<"x">>>>

\* resolveSkillEntry, skills-loader.ts 53-70 (skills.ts 68-85, cli/src/index.ts
\* 107-120): the entry of the directory d found under base; dir is
\* basename(dirname(skillPath))
resolveSkillEntry(cp, base, d, location) ==
  LET solid == {i \in 1..Len(d.content) :
                  Trim(d.content[i]) \notin {<<>>, FRONTMATTER_DELIMITER}}
      fallbackDescription == IF solid = {} THEN <<>> ELSE Trim(d.content[Least(solid)])
      entry(frontmatter, name) ==
        [name |-> IF name # <<>> THEN name ELSE d.dir,
         description |-> truncate(cp, IF frontmatter.description # <<>>
                                      THEN frontmatter.description
                                      ELSE IF fallbackDescription # <<>>
                                      THEN fallbackDescription
                                      ELSE NoDescription),
         location |-> location,
         base |-> base,
         dir |-> d.dir,
         workflow |-> (cp = "agent-server" /\ d.workflow)]
  IN Of({parseFrontmatter(d.content)},
        LAMBDA frontmatter : Of({Trim(frontmatter.name)},
                                LAMBDA name : entry(frontmatter, name)))

\* skills-loader.ts 48-51: the directory holds a SKILL.md
HasSkillFile(d) == d.file # "none"

\* collectSkillsFromDir, skills-loader.ts 72-85: the entries of the
\* subdirectories of base, in the order readdir lists them
collectSkillsFromDir(cp, fs, base, location) ==
  LET dirs == SelectSeq(fs[base[1]][base[2]], HasSkillFile)
  IN [i \in 1..Len(dirs) |-> resolveSkillEntry(cp, base, dirs[i], location)]

\* ------------------------------------------------- skills: listSkills
Roots == {"workspace", "home"}
RelDirs == {".agent/skills", ".claude/skills", "skills"}
Bases == Roots \X RelDirs
\* skills-loader.ts 126, skills.ts 21
DEFAULT_SKILL_DIRS == <<".agent/skills", ".claude/skills">>

\* nothing on disk
NoFiles == [root \in Roots |-> [dir \in RelDirs |-> <<>>]]
\* one skill in the workspace's .agent/skills
OneSkill == [NoFiles EXCEPT !["workspace"][".agent/skills"] =
                              <<SkillDir(<<"a">>, SkillFile(<<>>))>>]

\* the configuration as the user gave it: workspace configured or not, skills
\* enabled "true" | "false" | "unset", directories given or not
UserDefaults ==
  [workspace |-> TRUE, enabled |-> "unset",
   directories |-> [given |-> FALSE, list |-> <<>>], includeGlobal |-> FALSE]

\* applyDefaultOptions, agent-tars.ts 315-348: what the user gave overrides
\* the defaults (design note 9), an array given replaces the default array
applyDefaultOptions(cfg) ==
  [cfg EXCEPT !.enabled = IF @ = "unset" THEN "true" ELSE @,
              !.directories = IF @.given THEN @
                              ELSE [given |-> TRUE, list |-> DEFAULT_SKILL_DIRS]]

\* the options a copy of the loader is handed: the agent's are merged with the
\* defaults by its constructor (agent-tars.ts 55), the CLI enhancer
\* (cli/src/index.ts 311) and the server read the configuration as given
OptionsSeen(cp, cfg) ==
  IF cp \in {"skills-loader", "agent-tars"} THEN applyDefaultOptions(cfg) ELSE cfg

\* A listSkills that scans whatever the enabled flag says.
SkillsDisabled_Never(skillOptions) == FALSE

\* skills-loader.ts 122: `skillOptions?.enabled === false`
SkillsDisabled(skillOptions) == skillOptions.enabled = "false"

\* A listSkills that takes an empty list of directories for none given.
Directories_EmptyIsUnset(skillOptions) ==
  IF skillOptions.directories.given /\ skillOptions.directories.list # <<>>
  THEN skillOptions.directories.list ELSE DEFAULT_SKILL_DIRS

\* skills-loader.ts 126 (cli/src/index.ts 141, skills.ts 110-112):
\* `skillOptions?.directories || [defaults]`; an empty array is kept
Directories(skillOptions) ==
  IF skillOptions.directories.given THEN skillOptions.directories.list
  ELSE DEFAULT_SKILL_DIRS

\* skills.ts 105-108: the server lists nothing without a configured
\* workspace; the agent (agent-tars.ts 66) and the CLI (cli/src/index.ts 310)
\* fall back to the current directory
ListsNothing(cp, cfg) ==
  SkillsDisabled(OptionsSeen(cp, cfg)) \/ (cp = "agent-server" /\ ~cfg.workspace)

\* directories.flatMap(dir => collectSkillsFromDir(resolve(root, dir), location))
RECURSIVE scanAll(_, _, _, _, _)
scanAll(cp, fs, root, dirs, location) ==
  IF dirs = <<>> THEN <<>>
  ELSE collectSkillsFromDir(cp, fs, <<root, Head(dirs)>>, location)
         \o scanAll(cp, fs, root, Tail(dirs), location)

\* A listSkills that puts the global entries first.
listSkills_GlobalFirst(cp, cfg, fs) ==
  LET skillOptions == OptionsSeen(cp, cfg)
      directories == Directories(skillOptions)
  IN IF ListsNothing(cp, cfg) THEN <<>>
     ELSE (IF skillOptions.includeGlobal
           THEN scanAll(cp, fs, "home", directories, "global") ELSE <<>>)
            \o scanAll(cp, fs, "workspace", directories, "project")

\* listSkills, skills-loader.ts 120-136 (listSkillsFromConfig, cli/src/index.ts
\* 135-152; listSkillEntries, skills.ts 99-123)
listSkills(cp, cfg, fs) ==
  LET skillOptions == OptionsSeen(cp, cfg)
      directories == Directories(skillOptions)
  IN IF ListsNothing(cp, cfg) THEN <<>>
     ELSE scanAll(cp, fs, "workspace", directories, "project")
            \o (IF skillOptions.includeGlobal
                THEN scanAll(cp, fs, "home", directories, "global") ELSE <<>>)

\* skills-loader.ts 53: readFileSync raises for a SKILL.md that exists and
\* cannot be read, and the exception leaves listSkills
ScanRaises(cp, cfg, fs) ==
  LET skillOptions == OptionsSeen(cp, cfg)
      directories == Directories(skillOptions)
      roots == IF skillOptions.includeGlobal THEN Roots ELSE {"workspace"}
  IN /\ ~ListsNothing(cp, cfg)
     /\ \E root \in roots, k \in 1..Len(directories) :
          \E i \in 1..Len(fs[root][directories[k]]) :
            fs[root][directories[k]][i].file = "unreadable"

\* the summary a presentation layer shows (cli/src/index.ts 315-319)
Summary(skills) ==
  [i \in 1..Len(skills) |-> [name |-> skills[i].name,
                             description |-> skills[i].description,
                             location |-> skills[i].location]]

\* one copy of listSkills is applied to the configuration and the files
ListSkills(cp) ==
  /\ loaderPc \in {"list", "query", "found"}
  /\ cp \notin listedBy
  /\ ~ScanRaises(cp, skillsConfig, fsys)
  /\ listedBy' = listedBy \cup {cp}
  /\ listing' = [listing EXCEPT ![cp] = listSkills(cp, skillsConfig, fsys)]
  /\ UNCHANGED <<bmVars, callVars, sessionVars, regVars, handlerVars, description, copy,
                 truncated, retruncated, query, found, loaderPc, skillsConfig, fsys,
                 importedAs, rsPc, rsName, rsOut>>

\* -------------------------------------------- skills: findSkillByName
\* basenames of the skill directories tried; a file name may hold blanks
DirNames == Strings({"a", "A", " "}, MaxNameLen) \ {<<>>}
\* the name value of the SKILL.md header (skills-loader.ts 27-45 strips the
\* whitespace around it); the empty string stands for a header without name
HeaderNames == Strings({"b", "B"}, MaxNameLen)
Queries == Strings({"a", "A", "b", "B", " "}, MaxNameLen)

SkillDirectories == {SkillDir(d, SkillFile(h)) : d \in DirNames, h \in HeaderNames}

\* the scans tried: no skill, one skill, or one skill followed by the
\* directory "b" without a name in its header
Listings ==
  {<<>>} \cup {<<d>> : d \in SkillDirectories}
         \cup {<<d, SkillDir(<<"b">>, SkillFile(<<>>))>> : d \in SkillDirectories}

\* findSkillByName, skills-loader.ts 138-152 (agent-server utils/skills.ts
\* 125-137, cli/src/index.ts 154-164): {} stands for null
findSkillByName(cp, cfg, fs, skillName) ==
  LET first(target, skills) ==
        LET byName == {i \in 1..Len(skills) : ToLower(skills[i].name) = target}
            byDir == {i \in 1..Len(skills) : ToLower(skills[i].dir) = target}
        IN IF target = <<>> THEN {}
           ELSE IF byName # {} THEN {skills[Least(byName)]}
           ELSE IF byDir # {} THEN {skills[Least(byDir)]}
           ELSE {}
  IN UNION {first(target, skills) : target \in {ToLower(Trim(skillName))},
                                    skills \in {listSkills(cp, cfg, fs)}}

\* a lookup by name, as made by read_skill (index.ts 131-151)
FindSkill ==
  /\ loaderPc = "query"
  /\ ~ScanRaises(copy, skillsConfig, fsys)
  /\ found' = findSkillByName(copy, skillsConfig, fsys, query)
  /\ loaderPc' = "found"
  /\ UNCHANGED <<bmVars, callVars, sessionVars, regVars, handlerVars, description, copy,
                 truncated, retruncated, query, skillsConfig, fsys, listing, listedBy,
                 importedAs, rsPc, rsName, rsOut>>

\* the agent's scan (index.ts 108) finds at least one skill
hasSkills == listSkills("skills-loader", skillsConfig, fsys) # <<>>

\* ------------------------------------------------ provider catalogues
\* the tools each built-in provider lists
BuiltinTools(p) ==
  CASE p = "browser" -> {"browser_navigate"}
    [] p = "filesystem" -> {"read_file"}
    [] p = "commands" -> {"run_command"}

StdCatalogue == [p \in Providers |-> BuiltinTools(p)]

\* catalogues in which the commands provider also lists a name that another
\* registration path uses
Catalogues ==
  {[StdCatalogue EXCEPT !["commands"] = @ \cup extra] :
     extra \in SUBSET {"read_file", SearchTool}}

\* index.ts 324: the names in client.listTools() of provider p
ProviderTools(p) == catalogue[p]

\* what `await client.listTools()` gives the generic bridge
ListResults == {"rejects", "absent", "emptyObject", "nullTools", "array"}
NotAsked == "none"

\* A bridge that takes only a missing result for "no tools".
NoToolsReturned_AbsentOnly(res) == res = "absent"

\* index.ts 325: `!tools || !Array.isArray(tools.tools)`
NoToolsReturned(res) == res \in {"absent", "emptyObject", "nullTools"}

\* index.ts 323-361: listTools rejects, or the loop of 330 runs over a tools
\* field that is no array; the catch block of 358 re-raises.
BridgeRaises(res) == res = "rejects" \/ (~NoToolsReturned(res) /\ res # "array")

\* index.ts 330-353: the ids handed to registerToolFn for provider p
BridgedTools(p, res) ==
  IF res = "array" /\ ~NoToolsReturned(res) THEN ProviderTools(p) ELSE {}

BridgedIds == UNION {ProviderTools(p) : p \in Providers}
ProviderOf(t) == CHOOSE p \in Providers : t \in ProviderTools(p)

\* registerToolFn called once for every id of ids
Register(ids) ==
  [t \in RegistryIds |-> IF t \in ids THEN registered[t] + 1 ELSE registered[t]]

\* index.ts 108: the skills the scan of initializeSkillTools returns
ScannedSkills == listSkills("skills-loader", skillsConfig, fsys)
\* index.ts 108: the scan raises, and the exception leaves initialize (97)
ScanFails == ScanRaises("skills-loader", skillsConfig, fsys)

\* initializeSkillTools, index.ts 107-156: read_skill only when skills exist
SkillIds == IF hasSkills THEN {SkillTool} ELSE {}

\* BrowserToolsManager.registerTools (4.4): the provider's DOM tools, plus the
\* GUI controller's tool unless control is "dom"
BrowserManagerTools ==
  (IF mcpClients["browser"] # NoRun THEN ProviderTools("browser") ELSE {})
    \cup (IF managers.browserGUIAgent # NoRun THEN {GUITool} ELSE {})

\* FilesystemToolsManager.registerTools (4.5)
FilesystemManagerTools ==
  IF mcpClients["filesystem"] # NoRun THEN ProviderTools("filesystem") ELSE {}

NoPairs == [p \in Providers |-> NoRun]
InProgress == {"connecting", "regBrowser", "regFilesystem", "regRemaining", "failing"}
OtherEnd(e) == CHOOSE x \in Ends : x # e

\* ---------------------------------------------------------- initialize
\* An initialize that builds the GUI controller whatever the control mode.
CreatesGUIAgent_Always(opts) == TRUE

\* index.ts 83-85: `if (control !== 'dom') await this.initializeGUIAgent()`
CreatesGUIAgent(opts) == opts.control # "dom"

\* initialize, index.ts 67-101 (with 161-176, 181-197, 202-209, 223-239 and
\* 244-264), up to the await of the provider connections.
initialize(r) ==
  /\ managers' = [browserToolsManager |-> r,
                  filesystemToolsManager |-> r,
                  browserGUIAgent |-> IF CreatesGUIAgent(options) THEN r
                                      ELSE managers.browserGUIAgent]
  /\ managersCreated' = managersCreated + 1
  /\ IF options.mcpImpl = "in-memory"
     THEN /\ registered' = Register(IF options.search THEN {SearchTool} ELSE {})
          /\ mcpServers' = [p \in Providers |-> r]
          /\ conn' = [conn EXCEPT ![r] = [p \in Providers |-> [e \in Ends |-> "pending"]]]
          /\ initPc' = [initPc EXCEPT ![r] = "connecting"]
          /\ UNCHANGED toolSkills
     ELSE /\ registered' = Register((IF options.search THEN {SearchTool} ELSE {})
                                      \cup (IF ScanFails THEN {} ELSE SkillIds))
          /\ toolSkills' = IF ~ScanFails /\ hasSkills THEN ScannedSkills ELSE toolSkills
          /\ initPc' = [initPc EXCEPT ![r] = IF ScanFails THEN "failing" ELSE "ready"]
          /\ UNCHANGED <<mcpServers, conn>>
  /\ UNCHANGED <<bmVars, callVars, catalogue, listed, warned, via, handlerVars, fnVars,
                 options, linked, mcpClients, disposePc, disposeBy, closedPairs,
                 disposeReturns, sessionDisposes>>

\* AgentTARS.initialize, agent-tars.ts 123-128: the agent initializes its
\* environment once, before the session is disposed.
Initialize ==
  /\ initPc[First] = "idle"
  /\ disposePc = "idle" /\ sessionDisposes = 0
  /\ initialize(First)

\* A second initialize call issued while the first is in progress.
Reinitialize ==
  /\ initPc[First] \in InProgress \ {"failing"}
  /\ initPc[Second] = "idle"
  /\ initialize(Second)

\* A link that counts as established as soon as the client end has connected.
BothEndsConnected_ClientOnly(r, p, e) == e = "client" \/ conn[r][p]["client"] = "ok"

\* index.ts 264: Promise.all of client.connect and server.connect fulfils when
\* the end e resolving now is the second one.
BothEndsConnected(r, p, e) == conn[r][p][OtherEnd(e)] = "ok"

\* index.ts 264-270: one connect of provider p resolves; with both ends
\* connected the client is stored, and once every provider's callback has
\* fulfilled, createMCPClients resolves and registration starts (209-215).
ConnectResolves(r, p, e) ==
  /\ conn[r][p][e] = "pending"
  /\ conn' = [conn EXCEPT ![r][p][e] = "ok"]
  /\ LET both == BothEndsConnected(r, p, e)
         nowLinked == IF both THEN linked[r] \cup {p} ELSE linked[r]
     IN /\ linked' = [linked EXCEPT ![r] = nowLinked]
        /\ mcpClients' = IF both THEN [mcpClients EXCEPT ![p] = r] ELSE mcpClients
        /\ initPc' = IF nowLinked = Providers /\ initPc[r] = "connecting"
                     THEN [initPc EXCEPT ![r] = "regBrowser"]
                     ELSE initPc
  /\ UNCHANGED <<bmVars, callVars, auxVars, options, mcpServers, managers,
                 managersCreated, registered, disposePc, disposeBy, closedPairs,
                 disposeReturns, sessionDisposes>>

\* A connect callback that swallows the failure and fulfils without a client.
ConnectFails_Swallowed(r, p, e) ==
  /\ conn[r][p][e] = "pending"
  /\ conn' = [conn EXCEPT ![r][p][e] = "failed"]
  /\ linked' = [linked EXCEPT ![r] = linked[r] \cup {p}]
  /\ initPc' = IF linked[r] \cup {p} = Providers /\ initPc[r] = "connecting"
               THEN [initPc EXCEPT ![r] = "regBrowser"]
               ELSE initPc
  /\ UNCHANGED <<bmVars, callVars, auxVars, options, mcpServers, mcpClients,
                 managers, managersCreated, registered, disposePc, disposeBy,
                 closedPairs, disposeReturns, sessionDisposes>>

\* index.ts 264, 270, 94; agent-tars.ts 134-135: one connect of provider p
\* rejects; the rejection leaves createMCPClients and initialize and reaches
\* the catch block of AgentTARS.initialize.
ConnectFails(r, p, e) ==
  /\ conn[r][p][e] = "pending"
  /\ conn' = [conn EXCEPT ![r][p][e] = "failed"]
  /\ initPc' = IF initPc[r] = "connecting"
               THEN [initPc EXCEPT ![r] = "failing"]
               ELSE initPc
  /\ UNCHANGED <<bmVars, callVars, auxVars, options, linked, mcpServers, mcpClients,
                 managers, managersCreated, registered, disposePc, disposeBy,
                 closedPairs, disposeReturns, sessionDisposes>>

\* index.ts 291-296
RegisterBrowserTools(r) ==
  /\ initPc[r] = "regBrowser"
  /\ registered' = IF managers.browserToolsManager # NoRun
                   THEN Register(BrowserManagerTools) ELSE registered
  /\ via' = IF managers.browserToolsManager # NoRun
            THEN [via EXCEPT !["browser"] = @ \cup {"manager"}] ELSE via
  /\ initPc' = [initPc EXCEPT ![r] = "regFilesystem"]
  /\ UNCHANGED <<bmVars, callVars, catalogue, listed, warned, toolSkills, handlerVars,
                 fnVars, options,
                 conn, linked, mcpServers, mcpClients, managers,
                 managersCreated, disposePc, disposeBy, closedPairs, disposeReturns,
                 sessionDisposes>>

\* index.ts 299-304
RegisterFilesystemTools(r) ==
  /\ initPc[r] = "regFilesystem"
  /\ registered' = IF managers.filesystemToolsManager # NoRun
                   THEN Register(FilesystemManagerTools) ELSE registered
  /\ via' = IF managers.filesystemToolsManager # NoRun
            THEN [via EXCEPT !["filesystem"] = @ \cup {"manager"}] ELSE via
  /\ initPc' = [initPc EXCEPT ![r] = "regRemaining"]
  /\ UNCHANGED <<bmVars, callVars, catalogue, listed, warned, toolSkills, handlerVars,
                 fnVars, options,
                 conn, linked, mcpServers, mcpClients, managers,
                 managersCreated, disposePc, disposeBy, closedPairs, disposeReturns,
                 sessionDisposes>>

\* A registerMCPTools that hands every connected client to the generic bridge.
RemainingClients_All == {p \in Providers : mcpClients[p] # NoRun}

\* index.ts 307-314: the clients left to the generic bridge
RemainingClients ==
  {p \in Providers :
     /\ mcpClients[p] # NoRun
     /\ (p # "browser" \/ managers.browserToolsManager = NoRun)
     /\ (p # "filesystem" \/ managers.filesystemToolsManager = NoRun)}

\* every remaining client answers listTools with its array of tools
ListsTools == [p \in Providers |-> IF p \in RemainingClients THEN "array" ELSE NotAsked]

\* index.ts 330-353: how many times registerToolsFromClient hands id t to
\* registerToolFn over the remaining clients
BridgeCount(t, res) ==
  Cardinality({p \in RemainingClients : t \in BridgedTools(p, res[p])})

\* index.ts 307-362, 98, agent-tars.ts 131-140: every remaining client p is
\* asked for its tools and answers res[p]; the tools of an array are
\* registered, a missing result is warned about, a failure is re-raised and
\* fails initialize.  Otherwise read_skill is registered (107-156) and
\* initialize completes.
RegisterRemaining(r, res) ==
  /\ initPc[r] = "regRemaining"
  /\ \A p \in Providers : res[p] = NotAsked <=> p \notin RemainingClients
  /\ LET raised == \E p \in RemainingClients : BridgeRaises(res[p])
     IN /\ registered' =
             [t \in RegistryIds |->
                registered[t] + BridgeCount(t, res)
                  + (IF ~raised /\ ~ScanFails /\ t \in SkillIds THEN 1 ELSE 0)]
        /\ toolSkills' = IF ~raised /\ ~ScanFails /\ hasSkills THEN ScannedSkills
                         ELSE toolSkills
        /\ initPc' = [initPc EXCEPT ![r] = IF raised \/ ScanFails THEN "failing"
                                           ELSE "ready"]
  /\ listed' = [p \in Providers |-> IF p \in RemainingClients THEN res[p] ELSE listed[p]]
  /\ warned' = warned \cup {p \in RemainingClients :
                               res[p] # "rejects" /\ NoToolsReturned(res[p])}
  /\ via' = [p \in Providers |->
               IF p \in RemainingClients THEN via[p] \cup {"bridge"} ELSE via[p]]
  /\ UNCHANGED <<bmVars, callVars, catalogue, handlerVars, fnVars, options, conn,
                 linked, mcpServers, mcpClients, managers, managersCreated, disposePc,
                 disposeBy, closedPairs, disposeReturns, sessionDisposes>>

\* ------------------------------------------------------------- onDispose
\* index.ts 431-438: onDispose hands the maps to ResourceCleaner.cleanup
onDisposeStart(by) ==
  /\ disposePc = "idle"
  /\ disposePc' = "pairs"
  /\ disposeBy' = by
  /\ closedPairs' = {}

\* agent-tars.ts 134-136, 197-200: the catch block of AgentTARS.initialize
\* runs cleanup(), which is the environment's onDispose.
InitializeCatch(r) ==
  /\ initPc[r] = "failing"
  /\ onDisposeStart(r)
  /\ UNCHANGED <<bmVars, callVars, auxVars, options, initPc, conn, linked,
                 mcpServers, mcpClients, managers, managersCreated, registered,
                 disposeReturns, sessionDisposes>>

\* agent-tars.ts 189-192: the session disposes the agent; it does so while no
\* initialize is running.
Dispose ==
  /\ \A r \in Runs : initPc[r] \notin InProgress
  /\ sessionDisposes < MaxDisposes
  /\ sessionDisposes' = sessionDisposes + 1
  /\ onDisposeStart(NoRun)
  /\ UNCHANGED <<bmVars, callVars, auxVars, options, initPc, conn, linked,
                 mcpServers, mcpClients, managers, managersCreated, registered,
                 disposeReturns>>

PairsToClose == {p \in Providers : mcpClients[p] # NoRun \/ mcpServers[p] # NoRun}

CloseEnd(st) == IF st = "pending" THEN "failed" ELSE IF st = "ok" THEN "closed" ELSE st

\* ResourceCleaner.cleanup (4.6): one provider's client/server pair is torn
\* down; closing the linked channel ends a connect still pending on it.
CleanupPair(p) ==
  /\ disposePc = "pairs"
  /\ p \in PairsToClose \ closedPairs
  /\ closedPairs' = closedPairs \cup {p}
  /\ conn' = [r \in Runs |->
                IF r \in {mcpClients[p], mcpServers[p]}
                THEN [conn[r] EXCEPT ![p] = [e \in Ends |-> CloseEnd(conn[r][p][e])]]
                ELSE conn[r]]
  /\ UNCHANGED <<bmVars, callVars, auxVars, options, initPc, linked, mcpServers,
                 mcpClients, managers, managersCreated, registered, disposePc,
                 disposeBy, disposeReturns, sessionDisposes>>

\* ResourceCleaner.cleanup (4.6, 4.1 dispose): after the pairs, the browser is
\* closed; closing a browser that is not running does nothing.
CleanupBrowser ==
  /\ disposePc = "pairs"
  /\ PairsToClose \subseteq closedPairs
  /\ bmState' = IF isLaunchingComplete THEN "NotLaunched" ELSE bmState
  /\ disposePc' = "clear"
  /\ UNCHANGED <<attemptStatus, attemptKind, callVars, auxVars, options, initPc,
                 conn, linked, mcpServers, mcpClients, managers, managersCreated,
                 registered, disposeBy, closedPairs, disposeReturns, sessionDisposes>>

\* An onDispose that forgets to clear the client map.
onDisposeFinish_KeepClients ==
  /\ disposePc = "clear"
  /\ mcpServers' = NoPairs
  /\ disposePc' = "idle"
  /\ disposeBy' = NoRun
  /\ closedPairs' = {}
  /\ disposeReturns' = disposeReturns + 1
  /\ initPc' = IF disposeBy # NoRun THEN [initPc EXCEPT ![disposeBy] = "rejected"]
               ELSE initPc
  /\ UNCHANGED <<bmVars, callVars, auxVars, options, conn, linked, mcpClients,
                 managers, managersCreated, registered, sessionDisposes>>

\* An onDispose that forgets to clear the server map.
onDisposeFinish_KeepServers ==
  /\ disposePc = "clear"
  /\ mcpClients' = NoPairs
  /\ disposePc' = "idle"
  /\ disposeBy' = NoRun
  /\ closedPairs' = {}
  /\ disposeReturns' = disposeReturns + 1
  /\ initPc' = IF disposeBy # NoRun THEN [initPc EXCEPT ![disposeBy] = "rejected"]
               ELSE initPc
  /\ UNCHANGED <<bmVars, callVars, auxVars, options, conn, linked, mcpServers,
                 managers, managersCreated, registered, sessionDisposes>>

\* index.ts 440-443: the cleanup has returned, the references are cleared and
\* onDispose returns; agent-tars.ts 137: the catch block re-raises.
onDisposeFinish ==
  /\ disposePc = "clear"
  /\ mcpClients' = NoPairs
  /\ mcpServers' = NoPairs
  /\ disposePc' = "idle"
  /\ disposeBy' = NoRun
  /\ closedPairs' = {}
  /\ disposeReturns' = disposeReturns + 1
  /\ initPc' = IF disposeBy # NoRun THEN [initPc EXCEPT ![disposeBy] = "rejected"]
               ELSE initPc
  /\ UNCHANGED <<bmVars, callVars, auxVars, options, conn, linked, managers,
                 managersCreated, registered, sessionDisposes>>

\* ------------------------------------------- handler of a bridged tool
\* what the provider answers a forwarded call with
Contents == {"text", "image"}
Responses == [content : Contents, isError : BOOLEAN]
CallErrors == {"timeout", "closed"}
Replies == [kind : {"response"}, value : Responses]
             \cup [kind : {"error"}, value : CallErrors]
NoOutcome == [kind |-> "none", value |-> NoValue]

\* the tools whose handler registerToolsFromClient built (index.ts 330-353)
BridgedHandlers ==
  UNION {BridgedTools(p, listed[p]) : p \in {q \in Providers : "bridge" \in via[q]}}

\* A handler that swallows the failure of the forwarded call.
HandlerOutcome_Swallow(reply) ==
  IF reply.kind = "response"
  THEN [kind |-> "returned", value |-> reply.value.content]
  ELSE [kind |-> "returned", value |-> NoValue]

\* index.ts 342-352: `return result.content` on success, `throw error` from
\* the catch block
HandlerOutcome(reply) ==
  IF reply.kind = "response"
  THEN [kind |-> "returned", value |-> reply.value.content]
  ELSE [kind |-> "threw", value |-> reply.value]

\* index.ts 341-346: the agent calls bridged tool t; the handler forwards the
\* call with client.callTool and awaits it.
CallBridgedTool(t) ==
  /\ bcPc = "idle"
  /\ initPc[First] = "ready"
  /\ t \in BridgedHandlers
  /\ bcPc' = "forwarding"
  /\ bcTool' = t
  /\ UNCHANGED <<bmVars, callVars, sessionVars, regVars, bcReply, bcOut, bcLogged, afterVars, loopVars,
                 fnVars>>

\* index.ts 346-352: the forwarded call settles; a failure is logged (350)
\* and re-raised (351).
ForwardSettles(reply) ==
  /\ bcPc = "forwarding"
  /\ bcReply' = reply
  /\ bcOut' = HandlerOutcome(reply)
  /\ bcLogged' = IF reply.kind = "error" THEN bcLogged \cup {reply.value} ELSE bcLogged
  /\ bcPc' = "done"
  /\ UNCHANGED <<bmVars, callVars, sessionVars, regVars, bcTool, afterVars, loopVars,
                 fnVars>>

\* The agent loop takes the handler's outcome.
BridgedCallConsumed ==
  /\ bcPc = "done"
  /\ bcPc' = "idle"
  /\ bcTool' = NoValue
  /\ bcReply' = NoOutcome
  /\ bcOut' = NoOutcome
  /\ UNCHANGED <<bmVars, callVars, sessionVars, regVars, bcLogged, afterVars, loopVars,
                 fnVars>>

\* ------------------------------------------------------- onAfterToolCall
ToolResults == {"navigated", "failed"}
\* the screenshot the browser provider answers browser_screenshot with
ImageMime == "image/jpeg"
ImageData == "9j4AAQ"

\* browserState without a currentScreenshot
Unset == <<>>

\* index.ts 505: `data:${mimeType};base64,${data}`
DataUrl(mimeType, data) == <<"data:", mimeType, ";base64,", data>>

\* index.ts 497-512: how the screenshot request of updateBrowserState ends.
\* DOM control asks the browser provider: the call rejects, or its content is
\* no array, has no second entry, has a second entry that is no image, or
\* has an image there.  Otherwise the GUI controller is asked: its screenshot
\* rejects or gives the compressed image.
CaptureKinds ==
  IF options.control = "dom"
  THEN {"rejects", "notArray", "short", "notImage", "image"}
  ELSE {"rejects", "shot"}

\* index.ts 497, 508: the screenshot source updateBrowserState has at hand
HasCaptureSource ==
  IF options.control = "dom"
  THEN mcpClients["browser"] # NoRun
  ELSE managers.browserGUIAgent # NoRun

\* index.ts 497-514: the request rejected, or destructuring content[1] raised
CaptureFailed(kind) == kind \in {"rejects", "short"}

\* index.ts 503-511: the value assigned to browserState.currentScreenshot
Captured(kind, before) ==
  CASE kind = "image" -> DataUrl(ImageMime, ImageData)
    [] kind = "shot" -> <<ImageData>>
    [] OTHER -> before

\* An updateBrowserState without its catch block.
AfterOutcome_Uncaught(kind, res) ==
  IF CaptureFailed(kind)
  THEN [kind |-> "threw", value |-> kind]
  ELSE [kind |-> "returned", value |-> res]

\* index.ts 512-514, 425: a capture failure is caught and logged; the tool's
\* result is returned
AfterOutcome(kind, res) == [kind |-> "returned", value |-> res]

\* onAfterToolCall, index.ts 410-425, up to its first await
AfterToolCall(name, res) ==
  /\ afterPc = "idle"
  /\ initPc[First] = "ready"
  /\ afterTool' = name
  /\ afterResult' = res
  /\ shotBefore' = currentScreenshot
  /\ IF name = "browser_navigate" /\ isLaunchingComplete
     THEN afterPc' = "checkAlive" /\ UNCHANGED afterOut
     ELSE afterPc' = "done" /\ afterOut' = [kind |-> "returned", value |-> res]
  /\ UNCHANGED <<bmVars, callVars, sessionVars, regVars, bridgeVars, afterAlive,
                 afterCapture, currentScreenshot, captureWarned, loopVars, fnVars>>

\* index.ts 420-422, 494-511: `await isBrowserAlive()` settles; with a live
\* browser updateBrowserState requests the screenshot from the source it has.
AliveSettled ==
  /\ afterPc = "checkAlive"
  /\ afterAlive' = IF isBrowserAlive THEN "alive" ELSE "dead"
  /\ IF isBrowserAlive /\ HasCaptureSource
     THEN afterPc' = "capturing" /\ UNCHANGED afterOut
     ELSE afterPc' = "done" /\ afterOut' = [kind |-> "returned", value |-> afterResult]
  /\ UNCHANGED <<bmVars, callVars, sessionVars, regVars, bridgeVars, afterTool,
                 afterResult, afterCapture, shotBefore, currentScreenshot, captureWarned,
                 loopVars, fnVars>>

\* index.ts 497-514, 425: the screenshot request settles
CaptureSettled(kind) ==
  /\ afterPc = "capturing"
  /\ kind \in CaptureKinds
  /\ afterCapture' = kind
  /\ currentScreenshot' = Captured(kind, currentScreenshot)
  /\ captureWarned' = CaptureFailed(kind)
  /\ afterOut' = AfterOutcome(kind, afterResult)
  /\ afterPc' = "done"
  /\ UNCHANGED <<bmVars, callVars, sessionVars, regVars, bridgeVars, afterTool,
                 afterResult, afterAlive, shotBefore, loopVars, fnVars>>

\* The agent loop takes the outcome; browserState keeps the screenshot.
AfterCallConsumed ==
  /\ afterPc = "done"
  /\ afterPc' = "idle"
  /\ afterTool' = NoValue
  /\ afterResult' = NoValue
  /\ afterAlive' = "none"
  /\ afterCapture' = "none"
  /\ afterOut' = NoOutcome
  /\ shotBefore' = Unset
  /\ captureWarned' = FALSE
  /\ UNCHANGED <<bmVars, callVars, sessionVars, regVars, bridgeVars, currentScreenshot,
                 loopVars, fnVars>>

\* -------------------------------------------------- onEachAgentLoopStart
\* A guard that does not ask whether the launch has completed.
PrimesGUI_WhileLaunching ==
  /\ options.control # "dom"
  /\ managers.browserGUIAgent # NoRun

\* index.ts 373-377: the guard of onEachAgentLoopStart
PrimesGUI ==
  /\ options.control # "dom"
  /\ managers.browserGUIAgent # NoRun
  /\ isLaunchingComplete

\* onEachAgentLoopStart, index.ts 367-381, up to its await: the controller is
\* handed the event stream (379) and its own onEachAgentLoopStart is awaited.
LoopStart(isReplaySnapshot) ==
  /\ loopPc = "idle"
  /\ initPc[First] = "ready"
  /\ IF PrimesGUI
     THEN guiPrimed' = TRUE /\ loopPc' = "awaitGUI" /\ UNCHANGED loopOut
     ELSE loopPc' = "done" /\ loopOut' = "returned" /\ UNCHANGED guiPrimed
  /\ UNCHANGED <<bmVars, callVars, sessionVars, regVars, bridgeVars, afterVars, observed,
                 fnVars>>

\* index.ts 381: the controller's onEachAgentLoopStart settles; it has emitted
\* its observation to the event stream, or it rejects and the rejection leaves
\* the hook.
GUILoopSettles(ok) ==
  /\ loopPc = "awaitGUI"
  /\ observed' = (observed \/ ok)
  /\ loopOut' = IF ok THEN "returned" ELSE "threw"
  /\ loopPc' = "done"
  /\ UNCHANGED <<bmVars, callVars, sessionVars, regVars, bridgeVars, afterVars,
                 guiPrimed, fnVars>>

\* The agent loop goes on to its reasoning turn.
LoopConsumed ==
  /\ loopPc = "done"
  /\ loopPc' = "idle"
  /\ loopOut' = "none"
  /\ UNCHANGED <<bmVars, callVars, sessionVars, regVars, bridgeVars, afterVars,
                 guiPrimed, observed, fnVars>>

\* what the read_skill handler has given its caller: nothing yet
NoRead == [kind |-> "none", names |-> <<>>, text |-> <<>>, base |-> <<>>]

\* ------------------------------------------------ read_skill's handler
\* readSkillContent, agent-tars.ts 526-540: {} stands for null.  The file of
\* an entry just listed exists; its lines and its directory are returned.
readSkillContent(cfg, fs, skillName) ==
  {[content |-> (CHOOSE d \in {fs[e.base[1]][e.base[2]][i] : i \in 1..Len(fs[e.base[1]][e.base[2]])} :
                   d.dir = e.dir /\ HasSkillFile(d)).content,
    baseDir |-> <<e.base[1], e.base[2], e.dir>>] :
     e \in findSkillByName("agent-tars", cfg, fs, skillName)}

\* the names the handler is called with: none, blanks, the skill's name in
\* either case with or without padding, a name nothing carries
ReadArgs == {<<>>, <<" ">>, <<"a">>, <<"A", " ">>, <<"b">>}

\* the handler of read_skill, index.ts 131-151; it has no try block, so what
\* the scan of readSkillContent raises leaves the handler
ReadSkillResult(name) ==
  LET skillName == Trim(name)
      answer(text) ==
        IF text = {}
        THEN [NoRead EXCEPT !.kind = "notFound",
                            !.names = [i \in 1..Len(toolSkills) |-> toolSkills[i].name]]
        ELSE LET loaded == CHOOSE x \in text : TRUE
             IN [NoRead EXCEPT !.kind = "loaded", !.text = loaded.content,
                               !.base = loaded.baseDir]
  IN IF skillName = <<>> THEN [NoRead EXCEPT !.kind = "nameRequired"]
     ELSE IF ScanRaises("agent-tars", skillsConfig, fsys)
     THEN [NoRead EXCEPT !.kind = "threw"]
     ELSE Of({readSkillContent(skillsConfig, fsys, skillName)}, answer)

\* the agent calls read_skill, which exists once initialize has registered it
ReadSkill(name) ==
  /\ rsPc = "idle"
  /\ registered[SkillTool] > 0
  /\ rsName' = name
  /\ rsOut' = ReadSkillResult(name)
  /\ rsPc' = "done"
  /\ UNCHANGED <<bmVars, callVars, sessionVars, regVars, handlerVars, description, copy,
                 truncated, retruncated, query, found, loaderPc, skillsConfig, fsys,
                 listing, listedBy, importedAs>>

\* The agent loop takes the result.
ReadSkillConsumed ==
  /\ rsPc = "done"
  /\ rsPc' = "idle"
  /\ rsName' = <<>>
  /\ rsOut' = NoRead
  /\ UNCHANGED <<bmVars, callVars, sessionVars, regVars, handlerVars, description, copy,
                 truncated, retruncated, query, found, loaderPc, skillsConfig, fsys,
                 listing, listedBy, importedAs>>

\* While the session runs, the SKILL.md of a directory is deleted ("none") or
\* loses its read permission ("unreadable").
SkillFileChanges(b, i, to) ==
  /\ initPc[First] = "ready"
  /\ rsPc = "idle"
  /\ i \in 1..Len(fsys[b[1]][b[2]])
  /\ fsys[b[1]][b[2]][i].file = "ok"
  /\ fsys' = [fsys EXCEPT ![b[1]][b[2]][i].file = to]
  /\ UNCHANGED <<bmVars, callVars, sessionVars, regVars, handlerVars, description, copy,
                 truncated, retruncated, query, found, loaderPc, skillsConfig, listing,
                 listedBy, importedAs, rsPc, rsName, rsOut>>

\* --------------------------------------------------- importSkillWorkflow
\* the characters used here that [a-z0-9\u4e00-\u9fa5-_] matches
SlugChars == {"a", "b", "-", "_"}

\* replace(/-+/g, '-'): every run of dashes becomes one dash
Squeeze(str) ==
  LET dropped == {i \in 2..Len(str) : str[i] = "-" /\ str[i - 1] = "-"}
      before(i) == Cardinality({j \in dropped : j < i})
      src(k) == CHOOSE i \in k..(k + Cardinality(dropped)) :
                  i \notin dropped /\ i - before(i) = k
  IN [k \in 1..(Len(str) - Cardinality(dropped)) |-> str[src(k)]]

\* `skill-${Date.now()}`; "T" stands for the digits of the time
TimestampName == <<"s", "k", "i", "l", "l", "-", "T">>

\* slugifySkillName, config-sanitizer.ts 235-244
slugifySkillName(input) ==
  LET lowered == ToLower(Trim(input))
      dashed == Squeeze([i \in 1..Len(lowered) |->
                           IF lowered[i] \in SlugChars THEN lowered[i] ELSE "-"])
      from == IF dashed # <<>> /\ Head(dashed) = "-" THEN 2 ELSE 1
      to == IF dashed # <<>> /\ dashed[Len(dashed)] = "-" THEN Len(dashed) - 1
            ELSE Len(dashed)
      normalized == SubSeq(dashed, from, to)
  IN IF normalized # <<>> THEN normalized ELSE TimestampName

\* Array.prototype.join('\n')
RECURSIVE JoinLines(_)
JoinLines(lines) ==
  IF lines = <<>> THEN <<>>
  ELSE IF Len(lines) = 1 THEN lines[1]
  ELSE lines[1] \o <<"NL">> \o JoinLines(Tail(lines))

\* config-sanitizer.ts 270-283: the SKILL.md written for the name, as the
\* lines a reader gets back; "y" stands for the description, "x" for the
\* usage notes
ImportedContent(name) ==
  Of({JoinLines(<<FRONTMATTER_DELIMITER,
                         NameKey \o <<":", " ">> \o name,
                         DescriptionKey \o <<":", " ">> \o <<"y">>,
                         FRONTMATTER_DELIMITER,
                         <<>>,
                         <<"x">>,
                         <<>>>>)}, SplitLines)

\* the names a workflow is imported under (`!name` refuses the empty one)
ImportNames == Strings({"a", "A", " ", "/", "NL"}, MaxNameLen) \ {<<>>}

\* the directory importSkillWorkflow writes under: path.join(workspace,
\* '.agent', 'skills', ...), config-sanitizer.ts 263
ImportBase == <<"workspace", ".agent/skills">>

\* importSkillWorkflow, config-sanitizer.ts 246-295, for the name held in
\* query: without a workspace the request is refused (258-260); otherwise the
\* directory is made if missing (readdir lists a new one at any place, pos)
\* and workflow.json and SKILL.md are written into it
ImportSkillWorkflow(pos) ==
  /\ loaderPc = "import"
  /\ pos \in 0..Len(fsys[ImportBase[1]][ImportBase[2]])
  /\ IF ~skillsConfig.workspace
     THEN /\ loaderPc' = "refused"
          /\ UNCHANGED <<fsys, importedAs>>
     ELSE LET skillDirName == slugifySkillName(query)
              old == fsys[ImportBase[1]][ImportBase[2]]
              at == {i \in 1..Len(old) : old[i].dir = skillDirName}
              written == [dir |-> skillDirName, file |-> "ok",
                          content |-> ImportedContent(query), workflow |-> TRUE]
          IN /\ fsys' = [fsys EXCEPT ![ImportBase[1]][ImportBase[2]] =
                           IF at # {} THEN [old EXCEPT ![Least(at)] = written]
                           ELSE SubSeq(old, 1, pos) \o <<written>>
                                  \o SubSeq(old, pos + 1, Len(old))]
             /\ importedAs' = skillDirName
             /\ loaderPc' = "query"
  /\ UNCHANGED <<bmVars, callVars, sessionVars, regVars, handlerVars, description, copy,
                 truncated, retruncated, query, found, skillsConfig, listing, listedBy,
                 rsPc, rsName, rsOut>>

\* ------------------------------------------- a teardown step that fails
\* ResourceCleaner.cleanup (4.6, 8): closing one provider's pair fails; the
\* failure stays inside cleanup, which goes on with the next step, and the
\* pair's channel is left as it was
CleanupPairFails(p) ==
  /\ disposePc = "pairs"
  /\ p \in PairsToClose \ closedPairs
  /\ closedPairs' = closedPairs \cup {p}
  /\ UNCHANGED <<bmVars, callVars, auxVars, options, initPc, conn, linked, mcpServers,
                 mcpClients, managers, managersCreated, registered, disposePc,
                 disposeBy, disposeReturns, sessionDisposes>>

\* ------------------------------------------------------------------ specs
\* nothing is registered yet; the providers' catalogues are cat
RegInit(cat) ==
  /\ catalogue = cat
  /\ listed = [p \in Providers |-> NotAsked]
  /\ warned = {}
  /\ via = [p \in Providers |-> {}]
  /\ toolSkills = <<>>

\* no handler of a registered tool is running
HandlersIdle ==
  /\ bcPc = "idle"
  /\ bcTool = NoValue
  /\ bcReply = NoOutcome
  /\ bcOut = NoOutcome
  /\ bcLogged = {}
  /\ afterPc = "idle"
  /\ afterTool = NoValue
  /\ afterResult = NoValue
  /\ afterAlive = "none"
  /\ afterCapture = "none"
  /\ afterOut = NoOutcome
  /\ shotBefore = Unset
  /\ currentScreenshot = Unset
  /\ captureWarned = FALSE
  /\ loopPc = "idle"
  /\ loopOut = "none"
  /\ guiPrimed = FALSE
  /\ observed = FALSE

\* the skills loader has not been called
LoaderIdle ==
  /\ description = <<>>
  /\ copy = NoValue
  /\ truncated = <<>>
  /\ retruncated = <<>>
  /\ query = <<>>
  /\ found = {}
  /\ loaderPc = "idle"

\* the configuration is cfg, the skill directories on disk are fs, and no
\* listing, import or read_skill call has been made
SkillsInit(cfg, fs) ==
  /\ skillsConfig = cfg
  /\ fsys = fs
  /\ listing = [cp \in Copies |-> <<>>]
  /\ listedBy = {}
  /\ importedAs = <<>>
  /\ rsPc = "idle"
  /\ rsName = <<>>
  /\ rsOut = NoRead

EnvInit(opts) ==
  /\ bmState = "NotLaunched"
  /\ attemptStatus = [a \in Attempts |-> "unused"]
  /\ attemptKind = [a \in Attempts |-> "none"]
  /\ pc = [c \in Callers |-> "idle"]
  /\ tool = [c \in Callers |-> NoValue]
  /\ args = [c \in Callers |-> NoValue]
  /\ replay = [c \in Callers |-> FALSE]
  /\ joined = [c \in Callers |-> 0]
  /\ probe = [c \in Callers |-> "none"]
  /\ sawInFlight = [c \in Callers |-> 0]
  /\ result = [c \in Callers |-> "none"]
  /\ ret = [c \in Callers |-> NoValue]
  /\ calls = 0
  /\ options = opts
  /\ initPc = [r \in Runs |-> "idle"]
  /\ conn = [r \in Runs |-> [p \in Providers |-> [e \in Ends |-> "none"]]]
  /\ linked = [r \in Runs |-> {}]
  /\ mcpServers = NoPairs
  /\ mcpClients = NoPairs
  /\ managers = [browserToolsManager |-> NoRun, filesystemToolsManager |-> NoRun,
                 browserGUIAgent |-> NoRun]
  /\ managersCreated = 0
  /\ registered = [t \in RegistryIds |-> 0]
  /\ disposePc = "idle"
  /\ disposeBy = NoRun
  /\ closedPairs = {}
  /\ disposeReturns = 0
  /\ sessionDisposes = 0

\* skills: whether the workspace holds a skill
InitWith(opts, skills) ==
  /\ EnvInit(opts) /\ RegInit(StdCatalogue) /\ HandlersIdle /\ LoaderIdle
  /\ SkillsInit(UserDefaults, IF skills THEN OneSkill ELSE NoFiles)

\* the state after construction, for any configuration
Init == \E opts \in OptionSets, skills \in BOOLEAN : InitWith(opts, skills)

\* the state after construction with the default configuration
InitDefault == InitWith(DefaultOptions, FALSE)

NextBrowser ==
  \/ \E c \in Callers, name \in ToolNames, a \in ArgValues, r \in BOOLEAN :
       BeforeToolCall(c, name, a, r)
  \/ \E c \in Callers : LaunchSettled(c)
  \/ \E c \in Callers : ProbeSettled(c)
  \/ \E c \in Callers : RecoverSettled(c)
  \/ \E c \in Callers : CallConsumed(c)
  \/ \E a \in Attempts : AttemptSucceeds(a)
  \/ \E a \in Attempts : AttemptFails(a)
  \/ BrowserDies

NextInit ==
  \/ Initialize
  \/ \E r \in Runs, p \in Providers, e \in Ends : ConnectResolves(r, p, e)
  \/ \E r \in Runs, p \in Providers, e \in Ends : ConnectFails(r, p, e)
  \/ \E r \in Runs : RegisterBrowserTools(r)
  \/ \E r \in Runs : RegisterFilesystemTools(r)
  \/ \E r \in Runs, res \in [Providers -> ListResults \cup {NotAsked}] :
       RegisterRemaining(r, res)
  \/ \E r \in Runs : InitializeCatch(r)
  \/ Dispose
  \/ \E p \in Providers : CleanupPair(p)
  \/ CleanupBrowser
  \/ onDisposeFinish

\* tool calls against the browser supervisor
SpecBrowser == InitDefault /\ [][NextBrowser]_vars

\* the initialize / dispose lifecycle
SpecInit == Init /\ [][NextInit]_vars

NextReentrant ==
  \/ Initialize
  \/ Reinitialize
  \/ \E r \in Runs, p \in Providers, e \in Ends : ConnectResolves(r, p, e)
  \/ \E r \in Runs : RegisterBrowserTools(r)
  \/ \E r \in Runs : RegisterFilesystemTools(r)
  \/ \E r \in Runs : RegisterRemaining(r, ListsTools)

\* initialize with a second call issued while the first is running, all
\* connections succeeding
SpecReentrant == InitDefault /\ [][NextReentrant]_vars

NextCatalogue ==
  \/ Initialize
  \/ \E r \in Runs, p \in Providers, e \in Ends : ConnectResolves(r, p, e)
  \/ \E r \in Runs : RegisterBrowserTools(r)
  \/ \E r \in Runs : RegisterFilesystemTools(r)
  \/ \E r \in Runs : RegisterRemaining(r, ListsTools)

InitCatalogue ==
  \E cat \in Catalogues, skills \in BOOLEAN :
    /\ EnvInit(DefaultOptions) /\ RegInit(cat) /\ HandlersIdle /\ LoaderIdle
    /\ SkillsInit(UserDefaults, IF skills THEN OneSkill ELSE NoFiles)

\* one successful initialize, for providers whose catalogues may share names
SpecCatalogue == InitCatalogue /\ [][NextCatalogue]_vars

NextBridge ==
  \/ Initialize
  \/ \E r \in Runs, p \in Providers, e \in Ends : ConnectResolves(r, p, e)
  \/ \E r \in Runs : RegisterBrowserTools(r)
  \/ \E r \in Runs : RegisterFilesystemTools(r)
  \/ \E r \in Runs : RegisterRemaining(r, ListsTools)
  \/ \E t \in RegistryIds : CallBridgedTool(t)
  \/ \E reply \in Replies : ForwardSettles(reply)
  \/ BridgedCallConsumed

\* a successful initialize followed by calls of the bridged tools
SpecBridge == Init /\ [][NextBridge]_vars

\* the slot of the agent loop's sequential tool calls
LoopCaller == {c \in Callers : \A d \in Callers : c <= d}

InitOptions == \E opts \in OptionSets : InitWith(opts, FALSE)

NextAfter ==
  \/ Initialize
  \/ \E r \in Runs, p \in Providers, e \in Ends : ConnectResolves(r, p, e)
  \/ \E r \in Runs : RegisterBrowserTools(r)
  \/ \E r \in Runs : RegisterFilesystemTools(r)
  \/ \E r \in Runs : RegisterRemaining(r, ListsTools)
  \/ \E c \in LoopCaller :
       initPc[First] = "ready" /\ BeforeToolCall(c, "browser_navigate", AbsPath, FALSE)
  \/ \E c \in LoopCaller : LaunchSettled(c)
  \/ \E c \in LoopCaller : ProbeSettled(c)
  \/ \E c \in LoopCaller : RecoverSettled(c)
  \/ \E c \in LoopCaller : CallConsumed(c)
  \/ \E a \in Attempts : AttemptSucceeds(a)
  \/ \E a \in Attempts : AttemptFails(a)
  \/ BrowserDies
  \/ \E name \in ToolNames, res \in ToolResults : AfterToolCall(name, res)
  \/ AliveSettled
  \/ \E kind \in {"rejects", "notArray", "short", "notImage", "image", "shot"} :
       CaptureSettled(kind)
  \/ AfterCallConsumed

\* initialize, then browser tool calls and the after-call hook
SpecAfter == InitOptions /\ [][NextAfter]_vars

NextLoop ==
  \/ Initialize
  \/ \E r \in Runs, p \in Providers, e \in Ends : ConnectResolves(r, p, e)
  \/ \E r \in Runs : RegisterBrowserTools(r)
  \/ \E r \in Runs : RegisterFilesystemTools(r)
  \/ \E r \in Runs : RegisterRemaining(r, ListsTools)
  \/ \E c \in LoopCaller :
       initPc[First] = "ready" /\ BeforeToolCall(c, "browser_navigate", AbsPath, FALSE)
  \/ \E c \in LoopCaller : LaunchSettled(c)
  \/ \E c \in LoopCaller : ProbeSettled(c)
  \/ \E c \in LoopCaller : RecoverSettled(c)
  \/ \E c \in LoopCaller : CallConsumed(c)
  \/ \E a \in Attempts : AttemptSucceeds(a)
  \/ \E a \in Attempts : AttemptFails(a)
  \/ BrowserDies
  \/ \E isReplaySnapshot \in BOOLEAN : LoopStart(isReplaySnapshot)
  \/ \E ok \in BOOLEAN : GUILoopSettles(ok)
  \/ LoopConsumed

\* initialize, then browser tool calls and the loop-start hook
SpecLoop == InitOptions /\ [][NextLoop]_vars

InitTruncate ==
  \E d \in Descriptions, cp \in Copies :
    /\ EnvInit(DefaultOptions) /\ RegInit(StdCatalogue) /\ HandlersIdle
    /\ SkillsInit(UserDefaults, NoFiles)
    /\ description = d
    /\ copy = cp
    /\ truncated = <<>>
    /\ retruncated = <<>>
    /\ query = <<>>
    /\ found = {}
    /\ loaderPc = "input"

NextTruncate == Truncate \/ Retruncate

\* truncate applied, then applied again, for every copy and description
SpecTruncate == InitTruncate /\ [][NextTruncate]_vars

InitFind ==
  \E l \in Listings, q \in Queries :
    /\ EnvInit(DefaultOptions) /\ RegInit(StdCatalogue) /\ HandlersIdle
    /\ SkillsInit(UserDefaults,
                  [NoFiles EXCEPT !["workspace"][".agent/skills"] = l])
    /\ description = <<>>
    /\ copy = "skills-loader"
    /\ truncated = <<>>
    /\ retruncated = <<>>
    /\ query = q
    /\ found = {}
    /\ loaderPc = "query"

NextFind == FindSkill

\* findSkillByName applied to every scan and query
SpecFind == InitFind /\ [][NextFind]_vars

\* the loader's scratch state: at is where it stands, cp the copy applied,
\* q the name looked up or imported
LoaderAt(at, cp, q) ==
  /\ description = <<>>
  /\ copy = cp
  /\ truncated = <<>>
  /\ retruncated = <<>>
  /\ query = q
  /\ found = {}
  /\ loaderPc = at

\* the skills options tried
DirectoryOptions ==
  {[given |-> FALSE, list |-> <<>>], [given |-> TRUE, list |-> <<>>],
   [given |-> TRUE, list |-> <<"skills">>],
   [given |-> TRUE, list |-> <<".claude/skills", ".agent/skills">>]}

SkillConfigs ==
  [workspace : {TRUE}, enabled : {"unset", "true", "false"},
   directories : DirectoryOptions, includeGlobal : BOOLEAN]

\* the disks tried: nothing, a directory without SKILL.md, or one skill in
\* one of the directories
Disks ==
  {NoFiles,
   [NoFiles EXCEPT !["workspace"][".agent/skills"] =
                     <<[SkillDir(<<"a">>, <<>>) EXCEPT !.file = "none"]>>]}
    \cup {[NoFiles EXCEPT ![b[1]][b[2]] = <<SkillDir(<<"a">>, SkillFile(<<>>))>>] : b \in Bases}

InitSkills ==
  \E cfg \in SkillConfigs, fs \in Disks :
    /\ EnvInit(DefaultOptions) /\ RegInit(StdCatalogue) /\ HandlersIdle /\ LoaderIdle
    /\ SkillsInit(cfg, fs)

\* one successful initialize, for every skills configuration and disk
SpecSkills == InitSkills /\ [][NextCatalogue]_vars

\* the disks read_skill is tried on: the skill "a", alone or next to the
\* directory "c" whose header names it "b"
ReadDisks ==
  {OneSkill,
   [OneSkill EXCEPT !["workspace"][".claude/skills"] =
                      <<SkillDir(<<"c">>, SkillFile(<<"b">>))>>]}

InitReadSkill ==
  \E fs \in ReadDisks :
    /\ EnvInit(DefaultOptions) /\ RegInit(StdCatalogue) /\ HandlersIdle /\ LoaderIdle
    /\ SkillsInit(UserDefaults, fs)

NextReadSkill ==
  \/ Initialize
  \/ \E r \in Runs, p \in Providers, e \in Ends : ConnectResolves(r, p, e)
  \/ \E r \in Runs : RegisterBrowserTools(r)
  \/ \E r \in Runs : RegisterFilesystemTools(r)
  \/ \E r \in Runs : RegisterRemaining(r, ListsTools)
  \/ \E name \in ReadArgs : ReadSkill(name)
  \/ ReadSkillConsumed
  \/ \E b \in Bases, i \in 1..2, to \in {"none", "unreadable"} : SkillFileChanges(b, i, to)

\* initialize, then calls of read_skill while the files change
SpecReadSkill == InitReadSkill /\ [][NextReadSkill]_vars

\* skill directories that share names: "a" without a header name, "b" named
\* "a" by its header, "c" named "b" by its header
DirA == SkillDir(<<"a">>, SkillFile(<<>>))
DirB == SkillDir(<<"b">>, SkillFile(<<"a">>))
DirC == SkillDir(<<"c">>, SkillFile(<<"b">>))
OrderListings == {<<>>, <<DirA>>, <<DirB, DirA>>, <<DirB, DirC>>}

OrderDisks ==
  {[NoFiles EXCEPT !["workspace"][".agent/skills"] = l1,
                   !["workspace"][".claude/skills"] = l2,
                   !["home"][".claude/skills"] = l3] :
     l1 \in OrderListings, l2 \in OrderListings, l3 \in OrderListings}

OrderConfigs ==
  [workspace : {TRUE}, enabled : {"unset"},
   directories : DirectoryOptions \ {[given |-> TRUE, list |-> <<>>]},
   includeGlobal : BOOLEAN]

OrderQueries == {<<"a">>, <<"B">>, <<"c", " ">>, <<"x">>}

InitOrder ==
  \E cfg \in OrderConfigs, fs \in OrderDisks, q \in OrderQueries :
    /\ EnvInit(DefaultOptions) /\ RegInit(StdCatalogue) /\ HandlersIdle
    /\ SkillsInit(cfg, fs)
    /\ LoaderAt("query", "skills-loader", q)

NextOrder == ListSkills("skills-loader") \/ FindSkill

\* the agent's listSkills and findSkillByName over directories sharing names
SpecOrder == InitOrder /\ [][NextOrder]_vars

\* the SKILL.md files tried: with or without a header block, the block
\* giving a name, a description, both or neither, then the body
SkillFiles ==
  {(IF hdr THEN <<FRONTMATTER_DELIMITER>> ELSE <<>>)
     \o (IF n # <<>> THEN <<NameKey \o <<":", " ">> \o n>> ELSE <<>>)
     \o (IF d # <<>> THEN <<DescriptionKey \o <<":">> \o d>> ELSE <<>>)
     \o (IF hdr THEN <<FRONTMATTER_DELIMITER>> ELSE <<>>)
     \o body :
     hdr \in BOOLEAN, n \in {<<>>, <<"b">>, <<"B", " ">>}, d \in {<<>>, <<"y">>},
     body \in {<<>>, <<<<"x">>>>, <<<<>>, <<" ", "x">>>>}} \ {<<>>}

InitEntry ==
  \E lines \in SkillFiles, d \in {<<"a">>, <<"A", "a">>} :
    /\ EnvInit(DefaultOptions) /\ RegInit(StdCatalogue) /\ HandlersIdle
    /\ SkillsInit(UserDefaults,
                  [NoFiles EXCEPT !["workspace"][".agent/skills"] =
                                    <<SkillDir(d, lines)>>])
    /\ LoaderAt("list", NoValue, <<>>)

NextEntry == \E cp \in {"skills-loader", "agent-server"} : ListSkills(cp)

\* one SKILL.md resolved by the agent's and by the server's loader
SpecEntry == InitEntry /\ [][NextEntry]_vars

\* a SKILL.md whose header gives a description of n characters
Described(n) ==
  <<FRONTMATTER_DELIMITER, DescriptionKey \o <<":", " ">> \o Rep("x", n),
    FRONTMATTER_DELIMITER>>

SummaryDisks ==
  {[NoFiles EXCEPT ![b[1]][b[2]] = <<SkillDir(<<"a">>, Described(n))>>] :
     b \in {<<"workspace", ".agent/skills">>, <<"home", ".claude/skills">>},
     n \in {1, MAX_DESCRIPTION_LENGTH, MAX_DESCRIPTION_LENGTH + 1}}

SummaryConfigs ==
  [workspace : BOOLEAN, enabled : {"unset", "false"},
   directories : DirectoryOptions, includeGlobal : BOOLEAN]

InitSummaries ==
  \E cfg \in SummaryConfigs, fs \in SummaryDisks :
    /\ EnvInit(DefaultOptions) /\ RegInit(StdCatalogue) /\ HandlersIdle
    /\ SkillsInit(cfg, fs)
    /\ LoaderAt("list", NoValue, <<>>)

NextSummaries == \E cp \in {"skills-loader", "cli", "agent-server"} : ListSkills(cp)

\* the agent's, the CLI's and the server's listing of the same disk
SpecSummaries == InitSummaries /\ [][NextSummaries]_vars

\* the disks a workflow is imported onto: nothing, the skill "b" whose
\* header names it "a", or the skill "c" in the directory written to
ImportDisks ==
  {NoFiles, [NoFiles EXCEPT !["workspace"][".claude/skills"] = <<DirB>>],
   [NoFiles EXCEPT !["workspace"][".agent/skills"] = <<DirC>>]}

InitImport ==
  \E ws \in BOOLEAN, fs \in ImportDisks, n \in ImportNames :
    /\ EnvInit(DefaultOptions) /\ RegInit(StdCatalogue) /\ HandlersIdle
    /\ SkillsInit([UserDefaults EXCEPT !.workspace = ws], fs)
    /\ LoaderAt("import", "agent-server", n)

NextImport == (\E pos \in 0..1 : ImportSkillWorkflow(pos)) \/ FindSkill

\* a workflow imported by the server, then looked up under the same name
SpecImport == InitImport /\ [][NextImport]_vars

\* no hook of the agent loop is running
HooksIdle ==
  /\ \A c \in Callers : pc[c] = "idle"
  /\ afterPc = "idle"
  /\ loopPc = "idle"

NextLifecycle ==
  \/ Initialize
  \/ \E r \in Runs, p \in Providers, e \in Ends : ConnectResolves(r, p, e)
  \/ \E r \in Runs : RegisterBrowserTools(r)
  \/ \E r \in Runs : RegisterFilesystemTools(r)
  \/ \E r \in Runs : RegisterRemaining(r, ListsTools)
  \/ \E c \in LoopCaller, isReplaySnapshot \in BOOLEAN :
       /\ initPc[First] = "ready" /\ HooksIdle /\ disposePc = "idle"
       /\ BeforeToolCall(c, "browser_navigate", AbsPath, isReplaySnapshot)
  \/ \E c \in LoopCaller : LaunchSettled(c)
  \/ \E c \in LoopCaller : ProbeSettled(c)
  \/ \E c \in LoopCaller : RecoverSettled(c)
  \/ \E c \in LoopCaller : CallConsumed(c)
  \/ \E a \in Attempts : AttemptSucceeds(a)
  \/ \E a \in Attempts : AttemptFails(a)
  \/ BrowserDies
  \/ HooksIdle /\ disposePc = "idle" /\ LoopStart(FALSE)
  \/ \E ok \in BOOLEAN : GUILoopSettles(ok)
  \/ LoopConsumed
  \/ /\ initPc[First] = "ready" /\ HooksIdle /\ disposePc = "idle"
     /\ AfterToolCall("browser_navigate", "ok")
  \/ AliveSettled
  \/ \E kind \in {"rejects", "shot"} : CaptureSettled(kind)
  \/ AfterCallConsumed
  \/ initPc[First] = "ready" /\ HooksIdle /\ Dispose
  \/ \E p \in Providers : CleanupPair(p)
  \/ \E p \in Providers : CleanupPairFails(p)
  \/ CleanupBrowser
  \/ onDisposeFinish

\* a session from construction to disposal and the hooks called around it,
\* one at a time
SpecLifecycle == InitDefault /\ [][NextLifecycle]_vars

\* ----------------------------------------------------- browser readiness
NonReplayBrowserCall(c) == pc[c] # "idle" /\ IsBrowserTool(tool[c]) /\ ~replay[c]

\* C1: every non-replay browser call that reaches ensureBrowserReady while a
\* launch is in flight waits for that launch instead of starting another one,
\* and all calls waiting for one launch observe the same outcome: all return
\* if it succeeds, all raise if it fails.
C1_SingleLaunchSameOutcome ==
  /\ \A c \in Callers :
       (NonReplayBrowserCall(c) /\ sawInFlight[c] # 0
          /\ attemptKind[sawInFlight[c]] = "launch")
       => /\ joined[c] = sawInFlight[c]
          /\ attemptStatus[joined[c]] = "inflight" => InFlight = {joined[c]}
          /\ pc[c] = "done" =>
               result[c] = IF attemptStatus[joined[c]] = "ok" THEN "returned" ELSE "threw"
  /\ \A c1, c2 \in Callers :
       (pc[c1] = "done" /\ pc[c2] = "done" /\ probe[c1] = "none" /\ probe[c2] = "none"
          /\ joined[c1] # 0 /\ joined[c1] = joined[c2])
       => result[c1] = result[c2]

\* Two calls have waited for the same failed launch, the second one issued
\* while it was in flight.
C1_Witness ==
  \E c1, c2 \in Callers :
    /\ c1 # c2
    /\ pc[c1] = "done" /\ pc[c2] = "done"
    /\ NonReplayBrowserCall(c1) /\ NonReplayBrowserCall(c2)
    /\ sawInFlight[c1] = 0 /\ sawInFlight[c2] = joined[c1]
    /\ joined[c2] = joined[c1]
    /\ attemptKind[joined[c1]] = "launch" /\ attemptStatus[joined[c1]] = "fail"
    /\ result[c1] = "threw" /\ result[c2] = "threw"

\* C2: in every reachable state at most one browser launch or recovery
\* attempt is in progress.
C2_OneAttemptInFlight == Cardinality(InFlight) <= 1

\* Two interleaved calls both found the launched browser dead and both wait
\* for the one recovery in flight.
C2_Witness ==
  \E c1, c2 \in Callers :
    /\ c1 # c2
    /\ probe[c1] = "dead" /\ probe[c2] = "dead"
    /\ pc[c1] = "awaitRecover" /\ pc[c2] = "awaitRecover"
    /\ joined[c1] = joined[c2]
    /\ attemptKind[joined[c1]] = "recovery" /\ attemptStatus[joined[c1]] = "inflight"

\* C3: a step of an onBeforeToolCall invoked with isReplaySnapshot = true never
\* starts a launch or a recovery and never waits for one, whatever the browser
\* state; when the call ends it returns the (possibly path-rewritten) args.
C3_ReplayNeverLaunches ==
  [][\A c \in Callers :
       (replay'[c] /\ pc'[c] # pc[c])
       => /\ attemptStatus' = attemptStatus
          /\ bmState' = bmState
          /\ pc'[c] \in {"probing", "done"}
          /\ pc'[c] = "done" =>
               (result'[c] = "returned" /\ ret'[c] = ReturnedArgs(tool'[c], args'[c]))]_vars

\* A replayed browser call has returned although the launched browser is dead,
\* and no recovery is in flight.
C3_Witness ==
  \E c \in Callers :
    /\ replay[c] /\ IsBrowserTool(tool[c]) /\ pc[c] = "done"
    /\ probe[c] = "dead" /\ bmState = "Unresponsive"
    /\ result[c] = "returned" /\ InFlight = {}

FailedRecoveryCall(c) ==
  /\ pc[c] = "done" /\ IsBrowserTool(tool[c]) /\ ~replay[c]
  /\ probe[c] = "dead" /\ joined[c] # 0
  /\ attemptKind[joined[c]] = "recovery" /\ attemptStatus[joined[c]] = "fail"

\* C4 as stated: a browser call that found the browser dead and whose recovery
\* failed does not return normally from onBeforeToolCall.
C4_RecoveryFailureRaises ==
  \A c \in Callers : FailedRecoveryCall(c) => result[c] = "threw"

\* C4 as amended: a browser call that found the browser dead and whose recovery
\* failed has the failure logged only: onBeforeToolCall returns the args
\* normally and the slot can take the next call.
C4_RecoveryFailureLogged ==
  \A c \in Callers :
    FailedRecoveryCall(c)
    => /\ result[c] = "returned"
       /\ ret[c] = ReturnedArgs(tool[c], args[c])
       /\ ENABLED CallConsumed(c)

C4_Witness == \E c \in Callers : FailedRecoveryCall(c)

FailedLaunchCall(c) ==
  /\ pc[c] = "done" /\ IsBrowserTool(tool[c]) /\ ~replay[c]
  /\ probe[c] = "none" /\ joined[c] # 0
  /\ attemptKind[joined[c]] = "launch" /\ attemptStatus[joined[c]] = "fail"

\* C5: when the lazy launch of a non-replay browser call fails, the failure
\* leaves onBeforeToolCall: the call raises and returns no args.
C5_LaunchFailurePropagates ==
  \A c \in Callers : FailedLaunchCall(c) => (result[c] = "threw" /\ ret[c] = NoValue)

\* The call that started the launch itself has seen it fail.
C5_Witness == \E c \in Callers : FailedLaunchCall(c) /\ sawInFlight[c] = 0

SomeAttemptFailed == \E a \in Attempts : attemptStatus[a] = "fail"

\* C6: once a launch or a recovery has failed, every later non-replay browser
\* call attempts readiness again: with no launched browser it waits for a
\* launch in flight (its own or the one it joined), with a launched browser
\* it probes, and a probe that finds the browser not alive is followed by a
\* recovery in flight.
C6_ReadinessRetried ==
  [][\A c \in Callers :
       /\ (SomeAttemptFailed /\ pc[c] = "idle" /\ pc'[c] # "idle"
             /\ IsBrowserTool(tool'[c]) /\ ~replay'[c])
          => IF ~isLaunchingComplete
             THEN pc'[c] = "awaitLaunch" /\ joined'[c] \in InFlight'
             ELSE pc'[c] = "probing"
       /\ (SomeAttemptFailed /\ pc[c] = "probing" /\ pc'[c] # "probing"
             /\ ~replay[c] /\ ~isBrowserAlive)
          => pc'[c] = "awaitRecover" /\ joined'[c] \in InFlight']_vars

\* After a failed recovery a later call waits for a new launch.
C6_Witness ==
  \E c \in Callers, a \in Attempts :
    /\ attemptKind[a] = "recovery" /\ attemptStatus[a] = "fail"
    /\ pc[c] = "awaitLaunch" /\ joined[c] > a
    /\ attemptStatus[joined[c]] = "inflight"

\* C18: an onBeforeToolCall that returns gives back the args it was given
\* when the tool's name has no declared path parameters, and the path
\* resolver's rewriting of them when it has; a browser call that went through
\* a launch, a probe or a recovery returns its args unaltered.
C18_ArgsUnchangedOrResolved ==
  \A c \in Callers :
    (pc[c] = "done" /\ result[c] = "returned")
    => /\ ~hasPathParameters(tool[c]) => ret[c] = args[c]
       /\ hasPathParameters(tool[c]) => ret[c] = resolveToolPaths(tool[c], args[c])
       /\ (IsBrowserTool(tool[c]) /\ (joined[c] # 0 \/ probe[c] # "none"))
          => ret[c] = args[c]

\* A browser call given a relative path went through a launch and returned it
\* as it was, while a read_file call had the same path made absolute.
C18_Witness ==
  \E c1, c2 \in Callers :
    /\ pc[c1] = "done" /\ tool[c1] = "browser_navigate" /\ joined[c1] # 0
    /\ args[c1] = RelPath /\ ret[c1] = RelPath
    /\ pc[c2] = "done" /\ tool[c2] = "read_file"
    /\ args[c2] = RelPath /\ ret[c2] = AbsPath

\* ------------------------------------------------- initialize and dispose
NoLiveHandle == \A r \in Runs, p \in Providers, e \in Ends : conn[r][p][e] \notin {"pending", "ok"}

\* C7: an onDispose that has started always runs to its end, also when it is
\* the second one or follows an initialize that failed part-way; once it has
\* returned, mcpClients and mcpServers are empty and no provider connection is
\* left open or pending.
C7_DisposeLeavesNoHandles ==
  /\ disposePc = "pairs" => ENABLED (CleanupBrowser \/ \E p \in Providers : CleanupPair(p))
  /\ disposePc = "clear" => ENABLED onDisposeFinish
  /\ (disposeReturns >= 1 /\ disposePc = "idle")
     => (mcpClients = NoPairs /\ mcpServers = NoPairs /\ NoLiveHandle)

\* initialize failed with one provider connected and another one not, its
\* catch block disposed, and the session disposed twice more.
C7_Witness ==
  /\ initPc[First] = "rejected"
  /\ \E p, q \in Providers :
       /\ \A e \in Ends : conn[First][p][e] = "closed"
       /\ \E e \in Ends : conn[First][q][e] = "failed"
  /\ sessionDisposes = 2 /\ disposeReturns = 3 /\ disposePc = "idle"

\* C8 as stated: a second initialize issued while the first is in progress
\* fails fast: it creates no second set of managers, servers or clients and
\* registers no tool a second time.
C8_InitializeNotReentrant ==
  /\ initPc[Second] \in {"idle", "rejected"}
  /\ managersCreated <= 1
  /\ \A p \in Providers : mcpServers[p] # Second /\ mcpClients[p] # Second
  /\ \A t \in RegistryIds : registered[t] <= 1

\* C9: when a connect of any provider has failed, that initialize never gets
\* to register provider tools nor completes; it is rejected only after the
\* environment's disposal has run.
C9_ConnectFailureFailsInitialize ==
  \A r \in Runs :
    (\E p \in Providers, e \in Ends : conn[r][p][e] = "failed")
    => /\ initPc[r] \in {"failing", "rejected"}
       /\ \A t \in BridgedIds \cup {GUITool, SkillTool} : registered[t] = 0
       /\ initPc[r] = "rejected"
          => (disposeReturns >= 1 /\ mcpClients = NoPairs /\ mcpServers = NoPairs)

\* initialize was rejected after one provider had connected and another failed.
C9_Witness ==
  /\ initPc[First] = "rejected"
  /\ \E p \in Providers, e \in Ends : conn[First][p][e] = "failed"
  /\ linked[First] # {}

\* C10: a client handle enters mcpClients only when both connects of its
\* provider have resolved, and a provider's tool is registered only while the
\* provider's client is held and both ends of its connection are established.
C10_BridgeAfterConnect ==
  [][/\ \A p \in Providers :
          (mcpClients'[p] # NoRun /\ mcpClients'[p] # mcpClients[p])
          => \A e \in Ends : conn'[mcpClients'[p]][p][e] = "ok"
     /\ \A t \in BridgedIds :
          registered'[t] > registered[t]
          => /\ mcpClients[ProviderOf(t)] # NoRun
             /\ \A e \in Ends : conn[mcpClients[ProviderOf(t)]][ProviderOf(t)][e] = "ok"]_vars

\* initialize completed and bridged the tools of all three providers.
C10_Witness ==
  /\ initPc[First] = "ready"
  /\ \A t \in BridgedIds : registered[t] = 1
  /\ \A p \in Providers : mcpClients[p] = First

\* ------------------------------------------------------ tool registration
\* C11: every provider's tools are registered along one path only: the
\* browser and filesystem providers by their managers and never by the
\* generic bridge, which is not even asked for their tools; every other
\* connected provider by registerToolsFromClient and never by a manager.
C11_OneRegistrationPath ==
  \A p \in Providers :
    /\ Cardinality(via[p]) <= 1
    /\ IF p \in {"browser", "filesystem"}
       THEN via[p] \subseteq {"manager"} /\ listed[p] = NotAsked
       ELSE via[p] \subseteq {"bridge"}
    /\ (initPc[First] = "ready" /\ mcpClients[p] = First) => via[p] # {}

\* initialize completed: the managers registered the browser and filesystem
\* tools, the bridge the tool of the commands provider.
C11_Witness ==
  /\ initPc[First] = "ready"
  /\ via["browser"] = {"manager"} /\ via["filesystem"] = {"manager"}
  /\ via["commands"] = {"bridge"}
  /\ listed["commands"] = "array" /\ registered["run_command"] = 1
  /\ registered["browser_navigate"] = 1 /\ registered["read_file"] = 1

\* C12 as stated: over a session no tool id is handed to registerToolFn more
\* than once, also when two providers list a tool of the same name.
C12_RegisteredAtMostOnce == \A t \in RegistryIds : registered[t] <= 1

C14_ForwardFailureReraised ==
  bcPc = "done"
  => /\ bcReply.kind = "error"
        => /\ bcOut.kind = "threw" /\ bcOut.value = bcReply.value
           /\ bcReply.value \in bcLogged
     /\ bcReply.kind = "response"
        => /\ bcOut.kind = "returned" /\ bcOut.value = bcReply.value.content
           /\ bcOut.value \in Contents

\* The forwarded call of run_command failed after an earlier call had
\* failed in another way.
C14_Witness ==
  /\ bcPc = "done" /\ bcTool = "run_command"
  /\ bcReply.kind = "error" /\ bcOut.kind = "threw"
  /\ bcLogged = CallErrors

\* --------------------------------------------------------- after a call
\* the call is for browser_navigate and has ended without a capture failure
NavigateDone ==
  /\ afterPc = "done" /\ afterTool = "browser_navigate"
  /\ ~CaptureFailed(afterCapture)

\* C15 as stated: an onAfterToolCall for browser_navigate that found the
\* browser launched and alive has attached a non-empty currentScreenshot to
\* browserState, in every control and transport mode; one that found it not
\* launched or not alive has left browserState as it was and has returned.
C15_ScreenshotWhenAlive ==
  NavigateDone
  => IF afterAlive = "alive"
     THEN currentScreenshot # Unset /\ Len(currentScreenshot) > 0
     ELSE currentScreenshot = shotBefore /\ afterOut.kind = "returned"

C17_DomNeverPrimesGUI ==
  options.control = "dom"
  => /\ managers.browserGUIAgent = NoRun
     /\ ~guiPrimed /\ ~observed
     /\ loopPc \in {"idle", "done"}
     /\ loopPc = "done" => loopOut = "returned"

\* Under DOM control a loop start has returned while the browser was up.
C17_Witness ==
  /\ options.control = "dom" /\ options.mcpImpl = "in-memory"
  /\ loopPc = "done" /\ loopOut = "returned"
  /\ bmState = "Ready"

\* ---------------------------------------------------------------- skills
\* a description that truncate's trimming and whitespace collapsing leave alone
Normalised(str) == Collapse(Trim(str)) = str

\* C19 as stated, for descriptions that need no trimming or collapsing: in
\* every copy truncate returns at most 240 characters; a description longer
\* than 240 characters becomes its first 239 characters and one marker
\* character, a description of at most 240 characters is returned as it is,
\* and truncating the result again changes nothing.
C19_TruncateAtMostLimit ==
  (loaderPc \in {"truncated", "retruncated"} /\ Normalised(description))
  => /\ Len(truncated) <= MAX_DESCRIPTION_LENGTH
     /\ Len(description) > MAX_DESCRIPTION_LENGTH
        => /\ Len(truncated) = MAX_DESCRIPTION_LENGTH
           /\ SubSeq(truncated, 1, MAX_DESCRIPTION_LENGTH - 1)
                = SubSeq(description, 1, MAX_DESCRIPTION_LENGTH - 1)
     /\ Len(description) <= MAX_DESCRIPTION_LENGTH => truncated = description
     /\ loaderPc = "retruncated" => retruncated = truncated

\* the query is, up to letter case, the name of a listed skill or the
\* basename of its directory where that differs from the name
NamesListedSkill(q, skills) ==
  \E i \in 1..Len(skills) :
    \/ ToLower(q) = ToLower(skills[i].name)
    \/ skills[i].dir # skills[i].name /\ ToLower(q) = ToLower(skills[i].dir)

\* C20 as stated: findSkillByName returns null for an empty or
\* whitespace-only query, and returns a skill for every other query that is,
\* in any letter case, the declared name of a listed skill or the basename of
\* its directory.
C20_FindIsCaseInsensitive ==
  loaderPc = "found"
  => /\ Trim(query) = <<>> => found = {}
     /\ (Trim(query) # <<>> /\ NamesListedSkill(query, listSkills(copy, skillsConfig, fsys)))
        => found # {}

\* ------------------------------------------------- skills: registration
\* C21: with skills enabled and an empty list of directories configured, the
\* agent's scan lists nothing and read_skill is never registered, whatever
\* lies on disk.
C21_EmptyDirectoriesListNothing ==
  (skillsConfig.enabled # "false"
     /\ skillsConfig.directories = [given |-> TRUE, list |-> <<>>])
  => /\ ScannedSkills = <<>>
     /\ toolSkills = <<>>
     /\ registered[SkillTool] = 0

\* initialize has finished with an empty directory list configured while a
\* skill lies in the default directory
C21_Witness ==
  /\ skillsConfig.enabled # "false"
  /\ skillsConfig.directories = [given |-> TRUE, list |-> <<>>]
  /\ fsys = OneSkill
  /\ initPc[First] = "ready"

\* C22: read_skill is registered at most once; once initialize has finished
\* it is registered exactly when skills are not disabled and some scanned
\* directory holds a SKILL.md; with skills disabled it is never registered.
C22_ReadSkillIffSkillsFound ==
  LET dirs == IF skillsConfig.directories.given THEN skillsConfig.directories.list
              ELSE DEFAULT_SKILL_DIRS
      roots == IF skillsConfig.includeGlobal THEN Roots ELSE {"workspace"}
      onDisk == \E root \in roots, k \in 1..Len(dirs) :
                  \E i \in 1..Len(fsys[root][dirs[k]]) :
                    fsys[root][dirs[k]][i].file = "ok"
  IN /\ registered[SkillTool] <= 1
     /\ initPc[First] = "ready"
        => (registered[SkillTool] = 1 <=> (skillsConfig.enabled # "false" /\ onDisk))
     /\ skillsConfig.enabled = "false" => registered[SkillTool] = 0

\* read_skill has been registered for a skill that lies only in a global
\* directory
C22_Witness ==
  /\ initPc[First] = "ready"
  /\ registered[SkillTool] = 1
  /\ skillsConfig.includeGlobal
  /\ fsys["workspace"] = NoFiles["workspace"]

\* C23 as stated: a call of read_skill's handler never raises; it returns the
\* skill, or a structured error for a missing name or a skill not found.
C23_ReadSkillNeverRaises ==
  rsPc = "done" => rsOut.kind \in {"nameRequired", "notFound", "loaded"}

\* ------------------------------------------------- skills: the skill index
\* C24: the agent's listSkills returns one entry for every SKILL.md of the
\* scanned directories and nothing else, project entries before global ones,
\* within a root in the order of the configured directories, within a
\* directory in the order of its listing, entries of the same name all kept;
\* findSkillByName returns the first entry of that list whose name matches
\* the query and, only if no name matches, the first whose directory
\* basename matches.
C24_ListOrderAndFirstMatch ==
  LET skills == listing["skills-loader"]
      directories == IF skillsConfig.directories.given
                     THEN skillsConfig.directories.list ELSE DEFAULT_SKILL_DIRS
      roots == IF skillsConfig.includeGlobal THEN {"workspace", "home"} ELSE {"workspace"}
      rootRank(e) == IF e.location = "project" THEN 1 ELSE 2
      dirRank(e) == CHOOSE k \in 1..Len(directories) : directories[k] = e.base[2]
      place(e) == CHOOSE i \in 1..Len(fsys[e.base[1]][e.base[2]]) :
                    fsys[e.base[1]][e.base[2]][i].dir = e.dir
      Before(a, b) ==
        \/ rootRank(a) < rootRank(b)
        \/ rootRank(a) = rootRank(b) /\ dirRank(a) < dirRank(b)
        \/ rootRank(a) = rootRank(b) /\ dirRank(a) = dirRank(b) /\ place(a) < place(b)
      target == ToLower(Trim(query))
      byName == {i \in 1..Len(skills) : ToLower(skills[i].name) = target}
      byDir == {i \in 1..Len(skills) : ToLower(skills[i].dir) = target}
  IN "skills-loader" \in listedBy
     => /\ \A j \in 1..Len(skills) :
             /\ skills[j].base[1] \in roots
             /\ skills[j].location = "project" <=> skills[j].base[1] = "workspace"
             /\ \E k \in 1..Len(directories) : directories[k] = skills[j].base[2]
             /\ \E i \in 1..Len(fsys[skills[j].base[1]][skills[j].base[2]]) :
                  /\ fsys[skills[j].base[1]][skills[j].base[2]][i].dir = skills[j].dir
                  /\ fsys[skills[j].base[1]][skills[j].base[2]][i].file = "ok"
        /\ \A i \in 1..Len(skills), j \in 1..Len(skills) :
             i < j => Before(skills[i], skills[j])
        /\ \A root \in roots, k \in 1..Len(directories) :
             \A i \in 1..Len(fsys[root][directories[k]]) :
               fsys[root][directories[k]][i].file = "ok"
               => \E j \in 1..Len(skills) :
                    /\ skills[j].base = <<root, directories[k]>>
                    /\ skills[j].dir = fsys[root][directories[k]][i].dir
        /\ loaderPc = "found"
           => found = IF byName # {} THEN {skills[Least(byName)]}
                      ELSE IF byDir # {} THEN {skills[Least(byDir)]}
                      ELSE {}

\* the list holds a project entry before a global one and two entries of the
\* same name, and the lookup has returned an entry matched by name that is
\* listed after an entry whose directory basename matches
C24_Witness ==
  LET skills == listing["skills-loader"]
      target == ToLower(Trim(query))
  IN /\ "skills-loader" \in listedBy
     /\ loaderPc = "found"
     /\ \E i \in 1..Len(skills), j \in 1..Len(skills) :
          i < j /\ skills[i].location = "project" /\ skills[j].location = "global"
     /\ \E i \in 1..Len(skills), j \in 1..Len(skills) :
          i < j /\ skills[i].name = skills[j].name
     /\ \E i \in 1..Len(skills), j \in 1..Len(skills) :
          /\ i < j
          /\ ToLower(skills[i].dir) = target
          /\ ToLower(skills[i].name) # target
          /\ found = {skills[j]}

\* C25 as stated: the entry of an instruction file carries the header
\* block's name value or, when absent, the directory's basename; its
\* description is the header block's description value or, when absent, the
\* first non-empty line after the header block, or "No description" when
\* there is no such line.
C25_EntryNameAndDescription ==
  \A cp \in listedBy :
    LET d == fsys["workspace"][".agent/skills"][1]
        entry == listing[cp][1]
        frontmatter == parseFrontmatter(d.content)
        hasHeader == Trim(d.content[1]) = FRONTMATTER_DELIMITER
        closing == {i \in 2..Len(d.content) : Trim(d.content[i]) = FRONTMATTER_DELIMITER}
        bodyFrom == IF ~hasHeader THEN 1
                    ELSE IF closing = {} THEN Len(d.content) + 1
                    ELSE Least(closing) + 1
        solid == {i \in bodyFrom..Len(d.content) : Trim(d.content[i]) # <<>>}
    IN /\ entry.name = IF Trim(frontmatter.name) # <<>> THEN Trim(frontmatter.name)
                       ELSE d.dir
       /\ entry.description = IF frontmatter.description # <<>>
                              THEN frontmatter.description
                              ELSE IF solid # {} THEN Trim(d.content[Least(solid)])
                              ELSE NoDescription

C27_LoopStartPrimesOnlyAfterLaunch ==
  [][(loopPc = "idle" /\ loopPc' # "idle")
     => /\ UNCHANGED bmVars
        /\ (loopPc' = "awaitGUI" /\ guiPrimed')
             <=> (/\ options.control # "dom"
                  /\ managers.browserGUIAgent # NoRun
                  /\ bmState \notin {"NotLaunched", "Launching"})
        /\ bmState \in {"NotLaunched", "Launching"}
           => /\ loopPc' = "done" /\ loopOut' = "returned"
              /\ UNCHANGED <<guiPrimed, observed>>]_vars

\* with a GUI controller at hand, a loop start has returned without the
\* controller ever being primed, while the browser is launching
C27_Witness ==
  /\ options.control # "dom"
  /\ managers.browserGUIAgent # NoRun
  /\ loopPc = "done" /\ loopOut = "returned"
  /\ ~guiPrimed
  /\ bmState = "Launching"

\* C28 as stated: once onDispose has completed on an initialized session, no
\* step starts a browser launch or recovery and none changes the maps of
\* provider handles.
C28_NothingRestartsAfterDispose ==
  [][(initPc[First] = "ready" /\ disposeReturns > 0 /\ disposePc = "idle")
     => /\ \A a \in Attempts : attemptStatus[a] = "unused" => attemptStatus'[a] = "unused"
        /\ UNCHANGED <<mcpClients, mcpServers>>]_vars

\* ------------------------------------------- skills: summaries and import
\* C29 as stated: with a workspace configured, the summaries of the CLI's and
\* of the server's listing carry the same names, descriptions and locations
\* in the same order as the agent's listSkills.
C29_SummariesEqualAgentList ==
  (skillsConfig.workspace /\ "skills-loader" \in listedBy)
  => \A cp \in listedBy \cap {"cli", "agent-server"} :
       Summary(listing[cp]) = Summary(listing["skills-loader"])

\* C30 as stated: after importSkillWorkflow has succeeded for a name, the
\* directory written is a direct child of <workspace>/.agent/skills and
\* findSkillByName of that name returns the entry of that directory, with
\* its workflow file.
C30_ImportThenFindRoundTrips ==
  (loaderPc = "found" /\ importedAs # <<>>)
  => /\ \A i \in 1..Len(importedAs) : importedAs[i] # "/"
     /\ found # {}
     /\ \A e \in found : e.base = ImportBase /\ e.dir = importedAs /\ e.workflow

=============================================================================
